---- MODULE Spec2Model ----
(***************************************************************************)
(* x402-rs: the facilitator service (/verify, /settle), the "exact" EVM    *)
(* scheme it dispatches to, the token contract behind the RPC endpoint and *)
(* the protected endpoint of the example resource server.                  *)
(*                                                                         *)
(* Handlers are async functions: every `.await` of the source is a point   *)
(* where other tasks run, so a handler is one action per stretch of code   *)
(* between two awaits.  Strings that the code parses (addresses, amounts,  *)
(* nonces, signatures) are kept as strings and parsed by the operators     *)
(* that model the parsers.                                                 *)
(***************************************************************************)
EXTENDS Integers, Sequences, FiniteSets, TLC

\* ---------------------------------------------------------------- bounds
MaxTime == 2        \* the clock runs over 0..MaxTime
MaxTx == 2          \* settlement transactions submitted in one behaviour
MaxAdds == 1        \* add_supported calls made before the service starts
MaxLibAdds == 2     \* add_supported calls made when only the list is queried

None == "none"      \* Option::None
Slots == {"h1", "h2"}   \* facilitator handler tasks that can be in flight

\* ------------------------------------------------------------ errors.rs
\* X402Error values: a kind and the message it carries.
Err(kind, msg) == [ok |-> FALSE, kind |-> kind, v |-> msg]
Ok(v) == [ok |-> TRUE, kind |-> "Ok", v |-> v]

\* thiserror's #[error("...")] Display strings.
ErrorPrefix(kind) ==
  CASE kind = "JsonError" -> "JSON error: "
    [] kind = "Base64Error" -> "Base64 error: "
    [] kind = "BlockchainError" -> "Blockchain error: "
    [] kind = "InvalidPayload" -> "Invalid payment payload: "
    [] kind = "VerificationFailed" -> "Verification failed: "
    [] kind = "SettlementError" -> "Settlement failed: "
    [] kind = "InvalidAddress" -> "Invalid address: "
    [] kind = "InvalidAmount" -> "Invalid amount: "
    [] kind = "SignatureError" -> "Signature verification failed: "
    [] kind = "NonceUsed" -> "Nonce already used: "
    [] kind = "ConfigError" -> "Configuration error: "
    [] kind = "HttpError" -> "HTTP error: "
    [] OTHER -> ""

ErrToString(e) == ErrorPrefix(e.kind) \o e.v

\* ------------------------------------------------------------- utils.rs
\* Address::from_str: 20 bytes of hex in either case, 0x prefix optional.
ParseAddress(s) ==
  CASE s \in {"0xA11ce", "0xa11ce", "a11ce"} -> Ok("alice")
    [] s \in {"0xB0b", "0xb0b"} -> Ok("bob")
    [] s \in {"0xPay", "0xpay"} -> Ok("pay")
    [] s \in {"0xEve", "0xeve"} -> Ok("eve")
    [] s \in {"0xT0k", "0xt0k"} -> Ok("tok")
    [] OTHER -> Err("InvalidAddress", s)

\* The numbers the amount and timestamp strings of the model denote.
Numbers == (0 .. MaxTime + 1) \cup {9999, 10000} \cup (300 .. 300 + MaxTime + 1)

\* U256::from_dec_str
FromDecStr(s) ==
  IF \E n \in Numbers : ToString(n) = s
    THEN Ok(CHOOSE n \in Numbers : ToString(n) = s)
    ELSE Err("InvalidAmount", s)

\* U256::from_str (hex, 0x prefix stripped)
FromHexStr(s) ==
  CASE s = "0x2710" -> Ok(10000)
    [] s = "0X270F" -> Ok(9999)
    [] OTHER -> Err("InvalidAmount", s)

HasHexPrefix(s) == s \in {"0x2710", "0X270F", "0xzz"}

\* string_to_u256: decimal first, hex only with a 0x/0X prefix.
StringToU256(s) ==
  IF FromDecStr(s).ok THEN FromDecStr(s)
  ELSE IF HasHexPrefix(s) /\ FromHexStr(s).ok THEN FromHexStr(s)
  ELSE Err("InvalidAmount", s)

\* trim_start_matches("0x") followed by hex::decode_to_slice into [u8; 32].
DecodeNonce(s) ==
  CASE s \in {"0xn1", "0xN1", "n1"} -> Ok("n1")
    [] s \in {"0xn2"} -> Ok("n2")
    [] OTHER -> Err("InvalidPayload", "Invalid nonce")

\* A window that excludes both of its bounds.
IsTimestampValid_Exclusive(validAfter, validBefore, now) ==
  now > validAfter /\ now < validBefore

\* is_timestamp_valid, with the clock's reading passed in.
IsTimestampValid(validAfter, validBefore, now) == now >= validAfter /\ now <= validBefore

\* The BASE64 engine: the text of some bytes, and the bytes of a text.
Base64Encode(bytes) == <<"base64", bytes>>
Base64Decode(text) == text[2]

\* PaymentPayload's own fields; every other field of a payload record is part
\* of its `payload: Value`.
EnvelopeFields == {"x402Version", "scheme", "network"}

\* A PaymentPayload written with the keys "x402_version", "scheme", "network".
PayloadJson_SnakeCase(p) ==
  [x402_version |-> p.x402Version, scheme |-> p.scheme, network |-> p.network,
   payload |-> [f \in DOMAIN p \ EnvelopeFields |-> p[f]]]

\* serde_json::to_string of a PaymentPayload: an object with the keys
\* "x402Version" (serde rename), "scheme", "network" and "payload".
PayloadJson(p) ==
  [x402Version |-> p.x402Version, scheme |-> p.scheme, network |-> p.network,
   payload |-> [f \in DOMAIN p \ EnvelopeFields |-> p[f]]]

\* serde_json::from_str::<PaymentPayload>: every key of the struct is required.
ParsePayloadJson(json) ==
  IF \E key \in EnvelopeFields \cup {"payload"} : key \notin DOMAIN json
    THEN Err("JsonError", "missing field")
    ELSE Ok([f \in EnvelopeFields |-> json[f]] @@ json.payload)

\* encode_payment_header: the JSON text, base64-encoded.
EncodePaymentHeader(p) == Base64Encode(PayloadJson(p))

\* decode_payment_header: base64, then UTF-8, then JSON.  A header is kept as
\* what its sender encoded; its wire string is encode_payment_header of that,
\* or a string one of the decoding steps fails on.
DecodePaymentHeader(h) ==
  IF h.wire = "badBase64" THEN Err("Base64Error", "Invalid byte")
  ELSE IF h.wire = "badUtf8" THEN Err("InvalidPayload", "Invalid UTF-8")
  ELSE IF h.wire = "badJson" THEN Err("JsonError", "expected value")
  ELSE ParsePayloadJson(Base64Decode(EncodePaymentHeader(h.payload)))

\* ------------------------------------------------------ schemes/exact_evm.rs
EIP712_DOMAIN_NAME == "USD Coin"
EIP712_DOMAIN_VERSION == "2"
SchemeName == "exact"          \* ExactEvm::name

\* keccak256 of the ABI encoding is taken to be injective: a hash is the tuple
\* of what was hashed.
CreateDomainSeparator(token, chainId, name, version) ==
  <<"EIP712Domain", name, version, chainId, token>>

CreateAuthorizationHash(from, to, value, validAfter, validBefore, nonce, domain) ==
  <<"TransferWithAuthorization", from, to, value, validAfter, validBefore, nonce, domain>>

\* requirements.extra.{name,version}, else the defaults.
TokenName(r) ==
  IF r.extra.present /\ r.extra.name /= None THEN r.extra.name ELSE EIP712_DOMAIN_NAME

TokenVersion(r) ==
  IF r.extra.present /\ r.extra.version /= None THEN r.extra.version
  ELSE EIP712_DOMAIN_VERSION

\* A signature string: its hex form, and for a well-formed one the key that
\* made it and the hash it was made over.
SigHexLen(sig) == IF sig.form = "short" THEN 128 ELSE 130

\* Signature::recover: the signer when the hash is the signed one, an unrelated
\* address for any other hash, an error when r/s/v are no curve point.
Recover(sig, hash) ==
  IF sig.form = "unrecoverable" THEN Err("SignatureError", "recovery failed")
  ELSE IF sig.msg = hash THEN Ok(sig.signer)
  ELSE Ok("nobody")

\* The hash ExactEvm::verify recomputes from the payload and the requirements.
MessageHash(p, r, chainId) ==
  CreateAuthorizationHash(
    ParseAddress(p.from).v, ParseAddress(p.to).v, StringToU256(p.value).v,
    StringToU256(p.validAfter).v, StringToU256(p.validBefore).v,
    DecodeNonce(p.nonce).v,
    CreateDomainSeparator(ParseAddress(r.asset).v, chainId, TokenName(r), TokenVersion(r)))

\* `if value != expected_value { return Ok(false) }` (lines 256-258).
AmountMatches_AtMost(value, expected) == value <= expected
AmountMatches_Any(value, expected) == TRUE
AmountMatches(value, expected) == value = expected

\* Any network taken for the requirements' network.
NetworkMatches_Any(p, r) == TRUE

\* `if payload.network != requirements.network { return Ok(false) }` (240-242).
NetworkMatches(p, r) == p.network = r.network

Final(res) == [done |-> TRUE, res |-> res]
Continue == [done |-> FALSE, res |-> Ok(TRUE)]

\* ExactEvm::verify up to its first await (get_chainid): lines 232-270.
VerifyChecks(p, r, now) ==
  IF ~p.parses THEN Final(Err("InvalidPayload", "Invalid authorization"))
  ELSE IF p.scheme /= SchemeName THEN Final(Ok(FALSE))
  ELSE IF ~NetworkMatches(p, r) THEN Final(Ok(FALSE))
  ELSE IF ~ParseAddress(p.from).ok THEN Final(ParseAddress(p.from))
  ELSE IF ~ParseAddress(p.to).ok THEN Final(ParseAddress(p.to))
  ELSE IF ~StringToU256(p.value).ok THEN Final(StringToU256(p.value))
  ELSE IF ~ParseAddress(r.payTo).ok THEN Final(ParseAddress(r.payTo))
  ELSE IF ~StringToU256(r.maxAmountRequired).ok
    THEN Final(StringToU256(r.maxAmountRequired))
  ELSE IF ~ParseAddress(r.asset).ok THEN Final(ParseAddress(r.asset))
  ELSE IF ParseAddress(p.to).v /= ParseAddress(r.payTo).v THEN Final(Ok(FALSE))
  ELSE IF ~AmountMatches(StringToU256(p.value).v, StringToU256(r.maxAmountRequired).v)
    THEN Final(Ok(FALSE))
  ELSE IF ~StringToU256(p.validAfter).ok THEN Final(StringToU256(p.validAfter))
  ELSE IF ~StringToU256(p.validBefore).ok THEN Final(StringToU256(p.validBefore))
  ELSE IF now < StringToU256(p.validAfter).v \/ now > StringToU256(p.validBefore).v
    THEN Final(Ok(FALSE))
  ELSE Continue

\* After get_chainid: the nonce is decoded before the contract is asked
\* (lines 288-293).
VerifyParseNonce(p) ==
  IF ~DecodeNonce(p.nonce).ok THEN Final(DecodeNonce(p.nonce)) ELSE Continue

\* Lines 325-341: length, hex decoding, recovery, comparison with `from`.
VerifySignature(p, r, chainId) ==
  IF SigHexLen(p.signature) /= 130 THEN Ok(FALSE)
  ELSE IF p.signature.form = "nonhex" THEN Err("InvalidPayload", "Invalid signature")
  ELSE IF ~Recover(p.signature, MessageHash(p, r, chainId)).ok
    THEN Recover(p.signature, MessageHash(p, r, chainId))
  ELSE Ok(Recover(p.signature, MessageHash(p, r, chainId)).v = ParseAddress(p.from).v)

\* A failed authorizationState call read as "not used".
AuthStateOrDefault_AssumeUnused(rpcOk, onChain) == rpcOk /\ onChain

\* authorization_state(from, nonce).call().await.unwrap_or(true), lines 296-301:
\* a call that fails is read as "used".
AuthStateOrDefault(rpcOk, onChain) == IF rpcOk THEN onChain ELSE TRUE

\* After the authorizationState call (lines 303-341): a used nonce raises
\* NonceUsed before the signature is looked at.
VerifyAfterAuthState(p, r, chainId, isUsed) ==
  IF isUsed THEN Err("NonceUsed", p.nonce) ELSE VerifySignature(p, r, chainId)

\* ExactEvm::settle up to its first await (lines 351-383).  sig_bytes[0..32]
\* and [64] panic on fewer than 65 bytes; hex::decode fails on non-hex.
SettleChecks(p, r, keyOk) ==
  IF ~p.parses THEN Final(Err("InvalidPayload", "Invalid authorization"))
  ELSE IF p.signature.form = "nonhex" THEN Final(Err("InvalidPayload", "Invalid signature"))
  ELSE IF SigHexLen(p.signature) < 130 THEN Final(Err("Panic", "index out of range"))
  ELSE IF ~ParseAddress(p.from).ok THEN Final(ParseAddress(p.from))
  ELSE IF ~ParseAddress(p.to).ok THEN Final(ParseAddress(p.to))
  ELSE IF ~StringToU256(p.value).ok THEN Final(StringToU256(p.value))
  ELSE IF ~ParseAddress(r.asset).ok THEN Final(ParseAddress(r.asset))
  ELSE IF ~DecodeNonce(p.nonce).ok THEN Final(DecodeNonce(p.nonce))
  ELSE IF ~StringToU256(p.validAfter).ok THEN Final(StringToU256(p.validAfter))
  ELSE IF ~StringToU256(p.validBefore).ok THEN Final(StringToU256(p.validBefore))
  ELSE IF ~keyOk THEN Final(Err("ConfigError", "Invalid facilitator key"))
  ELSE Continue

\* The transferWithAuthorization call settle builds (lines 392-402): every
\* argument is the payload's own; only the contract is the requirements'.
SettleCall(p, r) ==
  [from |-> ParseAddress(p.from).v, to |-> ParseAddress(p.to).v,
   value |-> StringToU256(p.value).v,
   validAfter |-> StringToU256(p.validAfter).v,
   validBefore |-> StringToU256(p.validBefore).v,
   nonce |-> DecodeNonce(p.nonce).v, signature |-> p.signature,
   asset |-> ParseAddress(r.asset).v]

\* ------------------------------------------------- the token contract (RPC)
ChainId == "8453"              \* what get_chainid answers for rpc_url
ContractName == "USD Coin"     \* the deployed token's EIP-712 name and version
ContractVersion == "2"

\* The hash the contract recomputes for a transferWithAuthorization call.
ContractHash(call) ==
  CreateAuthorizationHash(call.from, call.to, call.value, call.validAfter,
    call.validBefore, call.nonce,
    CreateDomainSeparator(call.asset, ChainId, ContractName, ContractVersion))

\* EIP-3009 transferWithAuthorization: the requires of the reference contract
\* (now strictly inside the window, authorization unused, signer is `from`).
ContractAccepts(call, now, used) ==
  /\ now > call.validAfter
  /\ now < call.validBefore
  /\ <<call.from, call.nonce>> \notin used
  /\ Recover(call.signature, ContractHash(call)).ok
  /\ Recover(call.signature, ContractHash(call)).v = call.from

\* format!("{:?}", receipt.transaction_hash) of the i-th transaction.
TxHash(i) == "0xtx" \o ToString(i)

\* ---------------------------------------------------------- facilitator.rs
InitialSupported == << <<"exact", "8453">> >>     \* FacilitatorConfig::new

AddSupported(supported, scheme, network) == Append(supported, <<scheme, network>>)

\* The scheme and the network looked up separately.
IsSupported_AnyMatch(supported, scheme, network) ==
  /\ \E i \in DOMAIN supported : supported[i][1] = scheme
  /\ \E i \in DOMAIN supported : supported[i][2] = network

IsSupported(supported, scheme, network) ==
  \E i \in DOMAIN supported : supported[i][1] = scheme /\ supported[i][2] = network

\* handle_supported: one SupportedKind per entry, in list order, assets None.
HandleSupported(supported) ==
  [i \in DOMAIN supported |->
     [scheme |-> supported[i][1], network |-> supported[i][2], assets |-> None]]

\* match payload.scheme.as_str() { "exact" => ExactEvm, _ => reject }
SchemeRegistered(scheme) == scheme = "exact"

Valid == [isValid |-> TRUE, invalidReason |-> None]
Invalid(reason) == [isValid |-> FALSE, invalidReason |-> reason]

VerifyEntry_NoSupportCheck(h, supported) ==
  IF ~DecodePaymentHeader(h).ok
    THEN [done |-> TRUE, res |-> Invalid("Invalid payment header: "
                                          \o ErrToString(DecodePaymentHeader(h)))]
  ELSE IF ~SchemeRegistered(h.payload.scheme)
    THEN [done |-> TRUE, res |-> Invalid("Unsupported scheme: " \o h.payload.scheme)]
  ELSE [done |-> FALSE, res |-> Valid]

\* handle_verify before it calls scheme.verify (lines 86-117).
VerifyEntry(h, supported) ==
  IF ~DecodePaymentHeader(h).ok
    THEN Final(Invalid("Invalid payment header: " \o ErrToString(DecodePaymentHeader(h))))
  ELSE IF ~IsSupported(supported, h.payload.scheme, h.payload.network)
    THEN Final(Invalid("Unsupported scheme/network: " \o h.payload.scheme \o "/"
                        \o h.payload.network))
  ELSE IF ~SchemeRegistered(h.payload.scheme)
    THEN Final(Invalid("Unsupported scheme: " \o h.payload.scheme))
  ELSE [done |-> FALSE, res |-> Valid]

VerifyRejected_NoReason(res) == Invalid(None)

\* The Ok(false) and Err(e) arms of the match on scheme.verify (lines 143-150).
VerifyRejected(res) ==
  IF res.ok THEN Invalid("Verification failed") ELSE Invalid(ErrToString(res))

LocalNonceCheck_Skipped(nonces, p) == Valid

\* The Ok(true) arm (lines 124-141): the local used-nonce check.
LocalNonceCheck(nonces, p) ==
  IF p.parses /\ p.nonce \in nonces THEN Invalid("Nonce already used") ELSE Valid

\* The nonce recorded by the check itself.
ReleaseNonces_Inserted(nonces, p) == nonces \cup {p.nonce}

\* The Ok(true) arm holds used_nonces.write() for the contains test alone
\* (lines 129-136): the guard is dropped with the set as it was.
ReleaseNonces(nonces, p) == nonces

InsertNonce_Overwrite(nonces, p) == IF p.parses THEN {p.nonce} ELSE nonces

\* handle_settle, "Mark nonce as used" (lines 201-207).
InsertNonce(nonces, p) == IF p.parses THEN nonces \cup {p.nonce} ELSE nonces

SettlementResponse(txHash, error) == [txHash |-> txHash, error |-> error]

SettleRejected_NoError(verification) == SettlementResponse("", None)

\* handle_settle on an invalid verification (lines 178-184).
SettleRejected(verification) == SettlementResponse("", verification.invalidReason)

\* The match on scheme.settle (lines 219-228).
SettleResult(res) ==
  IF res.ok THEN SettlementResponse(res.v, None)
  ELSE SettlementResponse("", ErrToString(res))

\* examples/facilitator.rs: the status each handler answers with.
VerifyHandlerStatus(handlerOk) == IF handlerOk THEN 200 ELSE 400

SettleHandlerStatus_Always200(handlerOk, response) == IF ~handlerOk THEN 500 ELSE 200

SettleHandlerStatus(handlerOk, response) ==
  IF ~handlerOk THEN 500 ELSE IF response.error /= None THEN 400 ELSE 200

\* ---------------------------------------------------------------- server.rs
RECURSIVE Pow10(_)
Pow10(d) == IF d = 0 THEN 1 ELSE 10 * Pow10(d - 1)

\* dollar_to_token_amount with token_usd_price 1.0: the price is held in cents,
\* (cents / 100 * 10^decimals).round().
DollarToTokenAmount(cents, decimals) ==
  ToString((2 * cents * Pow10(decimals) + 100) \div 200)

NoExtra == [present |-> FALSE, name |-> None, version |-> None]
Extra(name, version) == [present |-> TRUE, name |-> name, version |-> version]

\* examples/server.rs main: PaymentConfig::new(...).with_timeout(300)
\* .with_token_metadata("USD Coin", "2")
WeatherConfig ==
  [payTo |-> "0xPay", asset |-> "0xT0k", decimals |-> 6, network |-> "8453",
   scheme |-> "exact", priceCents |-> 1, description |-> "Weather API access",
   maxTimeoutSeconds |-> 300, tokenName |-> "USD Coin", tokenVersion |-> "2"]

\* PaymentConfig::to_requirements
ToRequirements(c, resource) ==
  [scheme |-> c.scheme, network |-> c.network,
   maxAmountRequired |-> DollarToTokenAmount(c.priceCents, c.decimals),
   resource |-> resource, payTo |-> c.payTo,
   maxTimeoutSeconds |-> c.maxTimeoutSeconds, asset |-> c.asset,
   extra |-> IF c.tokenName = None /\ c.tokenVersion = None THEN NoExtra
             ELSE Extra(c.tokenName, c.tokenVersion)]

\* Options that agree on scheme, network and asset merged into the first.
CreatePaymentRequiredResponse_Merged(configs, resource) ==
  [x402Version |-> 1,
   accepts |-> IF /\ Len(configs) > 1
                  /\ configs[1].scheme = configs[2].scheme
                  /\ configs[1].network = configs[2].network
                  /\ configs[1].asset = configs[2].asset
                 THEN <<ToRequirements(configs[1], resource)>>
                 ELSE [i \in DOMAIN configs |-> ToRequirements(configs[i], resource)],
   error |-> None]

\* create_payment_required_response over the map's values, in iteration order.
CreatePaymentRequiredResponse(configs, resource) ==
  [x402Version |-> 1,
   accepts |-> [i \in DOMAIN configs |-> ToRequirements(configs[i], resource)],
   error |-> None]

\* The X-PAYMENT-RESPONSE value: serde_json::to_string of PaymentResponse
\* (None fields are skipped), then base64.
PaymentResponseJson(txHash, settledAt) ==
  <<"json", <<"txHash", txHash>>, <<"settledAt", settledAt>>>>


Rfc3339(t) == "T" \o ToString(t)

VerifyReplyError_StatusOnly(status, verification) ==
  IF status < 200 \/ status > 299
    THEN Err("VerificationFailed", "Facilitator verification failed")
  ELSE Ok("settle")

\* verify_and_settle_payment on the facilitator's /verify answer (lines 169-183).
VerifyReplyError(status, verification) ==
  IF status < 200 \/ status > 299
    THEN Err("VerificationFailed", "Facilitator verification failed")
  ELSE IF ~verification.isValid
    THEN Err("VerificationFailed",
             IF verification.invalidReason = None THEN "Unknown reason"
             ELSE verification.invalidReason)
  ELSE Ok("settle")

SettleReplyResult_Unchecked(status, settlement) == Ok(settlement.txHash)

SettleReplyResult_VerificationKind(status, settlement) ==
  IF status < 200 \/ status > 299
    THEN Err("VerificationFailed", "Facilitator settlement failed")
  ELSE IF settlement.error /= None THEN Err("VerificationFailed", settlement.error)
  ELSE Ok(settlement.txHash)

\* verify_and_settle_payment on the /settle answer (lines 198-210).
SettleReplyResult(status, settlement) ==
  IF status < 200 \/ status > 299
    THEN Err("SettlementError", "Facilitator settlement failed")
  ELSE IF settlement.error /= None THEN Err("SettlementError", settlement.error)
  ELSE Ok(settlement.txHash)

\* examples/server.rs AppError::into_response and the three answers of
\* weather_handler.
ServerResponse(status, body, xPaymentResponse) ==
  [status |-> status, body |-> body, xPaymentResponse |-> xPaymentResponse]

PaymentFailed(e) == ServerResponse(402, <<"error", ErrToString(e)>>, None)
InvalidPayment(msg) == ServerResponse(400, <<"error", msg>>, None)
PaymentRequired ==
  ServerResponse(402, <<"accepts", CreatePaymentRequiredResponse(<<WeatherConfig>>, "/weather")>>, None)
Served(txHash, now) ==
  ServerResponse(200, <<"weather", txHash>>,
                 Base64Encode(PaymentResponseJson(txHash, Rfc3339(now))))

\* ------------------------------------------------------------------ inputs
\* What callers send.  R0 is what the weather endpoint advertises.
R0 == ToRequirements(WeatherConfig, "/weather")

JunkHash ==
  CreateAuthorizationHash("nobody", "nobody", 0, 0, 0, "n0",
                          CreateDomainSeparator("tok", ChainId, "", ""))

Parseable(p) ==
  /\ ParseAddress(p.from).ok /\ ParseAddress(p.to).ok /\ StringToU256(p.value).ok
  /\ StringToU256(p.validAfter).ok /\ StringToU256(p.validBefore).ok
  /\ DecodeNonce(p.nonce).ok

\* The payer's signature over the authorization for the token at "tok".
Sign(signer, p, name, version) ==
  [form |-> "ok", signer |-> signer,
   msg |-> IF Parseable(p)
             THEN CreateAuthorizationHash(
                    ParseAddress(p.from).v, ParseAddress(p.to).v,
                    StringToU256(p.value).v, StringToU256(p.validAfter).v,
                    StringToU256(p.validBefore).v, DecodeNonce(p.nonce).v,
                    CreateDomainSeparator("tok", ChainId, name, version))
             ELSE JunkHash]

Unsigned ==
  [x402Version |-> 1, scheme |-> "exact", network |-> "8453", parses |-> TRUE,
   from |-> "0xa11ce", to |-> "0xpay", value |-> "10000", validAfter |-> "0",
   validBefore |-> "2", nonce |-> "0xn1",
   signature |-> [form |-> "short", signer |-> "nobody", msg |-> JunkHash]]

Signed(p, signer) == [p EXCEPT !.signature = Sign(signer, p, "USD Coin", "2")]
Header(p) == [wire |-> "ok", payload |-> p]
Garbled(wire) == [wire |-> wire, payload |-> Unsigned]
BadSig(form) == [Signed(Unsigned, "alice") EXCEPT !.signature.form = form]

HBase == Header(Signed(Unsigned, "alice"))
HUpperNonce == Header(Signed([Unsigned EXCEPT !.nonce = "0xN1"], "alice"))
HBob == Header(Signed([Unsigned EXCEPT !.from = "0xb0b"], "bob"))
HNet == Header(Signed([Unsigned EXCEPT !.network = "84532"], "alice"))
HUpto == Header(Signed([Unsigned EXCEPT !.scheme = "upto"], "alice"))
HOtherDomain ==
  Header([Unsigned EXCEPT !.signature = Sign("alice", Unsigned, "Other Coin", "2")])

HVersion2 == Header(Signed([Unsigned EXCEPT !.x402Version = 2], "alice"))
HOtherForms ==
  Header(Signed([Unsigned EXCEPT !.from = "a11ce", !.value = "0x2710"], "alice"))
HInstant ==
  Header(Signed([Unsigned EXCEPT !.validAfter = "1", !.validBefore = "1"], "alice"))
HUnderpaid == Header(Signed([Unsigned EXCEPT !.value = "9999"], "alice"))
HExpired == Header(Signed([Unsigned EXCEPT !.validBefore = "0"], "alice"))

RichHeaders ==
  {HBase, HUpperNonce, HBob, HNet, HUpto, HOtherDomain, HVersion2, HOtherForms,
   HInstant, HUnderpaid, HExpired,
   Garbled("badBase64"), Garbled("badUtf8"), Garbled("badJson"),
   Header([Signed(Unsigned, "alice") EXCEPT !.parses = FALSE]),
   Header(Signed([Unsigned EXCEPT !.from = "0xzz"], "alice")),
   Header(Signed([Unsigned EXCEPT !.to = "0xeve"], "alice")),
   Header(Signed([Unsigned EXCEPT !.value = "0xzz"], "alice")),
   Header(Signed([Unsigned EXCEPT !.validBefore = "soon"], "alice")),
   Header(Signed([Unsigned EXCEPT !.nonce = "0xshort"], "alice")),
   Header(Signed(Unsigned, "eve")),
   Header(BadSig("short")), Header(BadSig("nonhex")), Header(BadSig("unrecoverable"))}

OtherRequirements ==
  {[R0 EXCEPT !.network = "84532"], [R0 EXCEPT !.scheme = "upto"],
   [R0 EXCEPT !.payTo = "0xzz"], [R0 EXCEPT !.maxAmountRequired = "0xzz"],
   [R0 EXCEPT !.maxAmountRequired = "9999"],
   [R0 EXCEPT !.asset = "0xzz"], [R0 EXCEPT !.extra = Extra("Other Coin", None)],
   [R0 EXCEPT !.extra = NoExtra]}

\* One handler at a time over every kind of input, or handlers racing over the
\* payloads that can be replayed.
SequentialInputs ==
  (RichHeaders \X {R0}) \cup ({HBase, HNet, HUpto, HOtherDomain} \X OtherRequirements)

\* /settle is not explored for the payloads that differ from HBase only in how
\* a valid field is written.
SequentialSettleInputs == SequentialInputs \ ({HVersion2, HOtherForms, HInstant} \X {R0})

ConcurrentInputs == {HBase} \X {R0}

\* The X-PAYMENT headers clients send to the weather endpoint.
WeatherHeaders == {HBase, HBob, HUnderpaid, HExpired, Garbled("badBase64")}

\* add_supported calls the deployment may make.
Addable == {<<"exact", "84532">>, <<"upto", "8453">>}

\* add_supported calls and is_supported queries made on a configuration alone;
\* examples/facilitator.rs adds ("exact", "8453") a second time.
LibAddable == {<<"exact", "8453">>, <<"upto", "137">>}
QueryPairs == {<<"exact", "8453">>, <<"exact", "137">>, <<"upto", "137">>, <<"upto", "8453">>}

\* The HashMap<String, PaymentConfig> a resource server keeps: an option may
\* repeat another's scheme, network and asset, or be equal to it.
PremiumConfig ==
  [WeatherConfig EXCEPT !.priceCents = 5, !.payTo = "0xb0b", !.maxTimeoutSeconds = 60,
                        !.description = "Premium"]
SepoliaConfig ==
  [WeatherConfig EXCEPT !.network = "84532", !.asset = "0xT35t", !.scheme = "upto",
                        !.tokenName = None, !.tokenVersion = None]
ConfigMaps ==
  UNION {[keys -> {WeatherConfig, PremiumConfig, SepoliaConfig}] :
           keys \in SUBSET {"basic", "premium"}}

\* HashMap::values visits the entries in an order of its own.
Orders(keys) ==
  {order \in [1 .. Cardinality(keys) -> keys] :
     \A i, j \in DOMAIN order : order[i] = order[j] => i = j}

\* ------------------------------------- schemes/exact_evm.rs: generate_payload
X402_VERSION == 1

\* format!("{:?}", address): 0x and the 20 bytes in lower-case hex.
FormatAddress(a) ==
  CASE a = "alice" -> "0xa11ce"
    [] a = "bob" -> "0xb0b"
    [] a = "pay" -> "0xpay"
    [] a = "eve" -> "0xeve"
    [] a = "tok" -> "0xt0k"
    [] OTHER -> "0x0"

\* U256::to_string: decimal digits.
U256ToString(v) == ToString(v)

\* private_key.parse::<LocalWallet>() and wallet.address().
WalletAddress(key) ==
  CASE key = "0xkeyA" -> Ok("alice")
    [] key = "keyB" -> Ok("bob")
    [] OTHER -> Err("InvalidPayload", "Invalid private key: " \o key)

\* generate_nonce: 32 random bytes, written as 0x and lower-case hex.
Nonces == {"n1", "n2"}
EncodeNonce(n) == "0x" \o n

\* generate_payload up to its get_chainid().await (lines 130-141).
GenerateChecks(r, key) ==
  IF ~ParseAddress(r.payTo).ok THEN Final(ParseAddress(r.payTo))
  ELSE IF ~StringToU256(r.maxAmountRequired).ok THEN Final(StringToU256(r.maxAmountRequired))
  ELSE IF ~ParseAddress(r.asset).ok THEN Final(ParseAddress(r.asset))
  ELSE IF ~WalletAddress(key).ok THEN Final(WalletAddress(key))
  ELSE Continue

GenerateDomain_Defaults(r, chainId) ==
  CreateDomainSeparator(ParseAddress(r.asset).v, chainId,
                        EIP712_DOMAIN_NAME, EIP712_DOMAIN_VERSION)

\* The domain generate_payload signs for (lines 159-180).
GenerateDomain(r, chainId) ==
  CreateDomainSeparator(ParseAddress(r.asset).v, chainId, TokenName(r), TokenVersion(r))

\* generate_payload after get_chainid (lines 144-223): nonce, window, hash,
\* signature, and the strings the authorization is written in.
GeneratePayload(r, key, chainId, nonce, t) ==
  LET from == WalletAddress(key).v
      to == ParseAddress(r.payTo).v
      value == StringToU256(r.maxAmountRequired).v
      validAfter == t
      validBefore == t + r.maxTimeoutSeconds
      hash == CreateAuthorizationHash(from, to, value, validAfter, validBefore,
                                      nonce, GenerateDomain(r, chainId))
  IN [x402Version |-> X402_VERSION, scheme |-> SchemeName, network |-> r.network,
      parses |-> TRUE,
      from |-> FormatAddress(from), to |-> FormatAddress(to),
      value |-> U256ToString(value),
      validAfter |-> U256ToString(validAfter),
      validBefore |-> U256ToString(validBefore),
      nonce |-> EncodeNonce(nonce),
      signature |-> [form |-> "ok", signer |-> from, msg |-> hash]]

\* --------------------------------------------------------------- client.rs
\* X402ClientConfig: None for a preference that is not set.
ClientConfig(scheme, network, key) ==
  [preferredScheme |-> scheme, preferredNetwork |-> network, privateKey |-> key]

SelectRequirement_Last(accepts, cfg) ==
  LET bySchemeAndNetwork ==
        SelectSeq(accepts, LAMBDA r :
          /\ cfg.preferredScheme /= None => r.scheme = cfg.preferredScheme
          /\ cfg.preferredNetwork /= None => r.network = cfg.preferredNetwork)
  IN IF bySchemeAndNetwork = << >> THEN Err("NoSuitableRequirement", "")
     ELSE Ok(bySchemeAndNetwork[Len(bySchemeAndNetwork)])

\* select_requirement: two retain passes, then the first candidate.
SelectRequirement(accepts, cfg) ==
  LET byScheme == IF cfg.preferredScheme = None THEN accepts
                  ELSE SelectSeq(accepts, LAMBDA r : r.scheme = cfg.preferredScheme)
      candidates == IF cfg.preferredNetwork = None THEN byScheme
                    ELSE SelectSeq(byScheme, LAMBDA r : r.network = cfg.preferredNetwork)
  IN IF candidates = << >> THEN Err("NoSuitableRequirement", "")
     ELSE Ok(candidates[1])

DispatchScheme_AnyScheme(r) == Ok(SchemeName)

\* generate_payment_payload: match requirement.scheme (lines 204-207).
DispatchScheme(r) ==
  IF r.scheme = "exact" THEN Ok(SchemeName) ELSE Err("UnsupportedScheme", r.scheme)

\* An HTTP request of the client.
HttpRequest(method, url, body, xPayment) ==
  [method |-> method, url |-> url, body |-> body, xPayment |-> xPayment]

\* The first request (lines 123-131).
FirstRequest(req) == HttpRequest(req.method, req.url, req.body, None)

RetryRequest_NoBody(req, header) == HttpRequest(req.method, req.url, None, header)

\* The retry (lines 148-153).
RetryRequest(req, header) == HttpRequest(req.method, req.url, req.body, header)

IsPaymentRequired_Any4xx(status) == status >= 400 /\ status <= 499

\* response.status() == StatusCode::PAYMENT_REQUIRED (line 134).
IsPaymentRequired(status) == status = 402

\* response.json::<PaymentRequiredResponse>(): the body needs x402Version and
\* accepts; a reqwest error is an HttpError.
ParsePaymentRequired(resp) ==
  IF resp.body[1] = "accepts" THEN Ok(resp.body[2])
  ELSE Err("HttpError", "error decoding response body")

RetryResult_Checked(resp) ==
  IF resp.status = 402 THEN Err("VerificationFailed", "payment rejected") ELSE Ok(resp)

\* Ok(retry_response) (line 168).
RetryResult(resp) == Ok(resp)

\* What servers answer the client with.
NoResponse == ServerResponse(0, <<"none", "">>, None)
Accepting(accepts) ==
  ServerResponse(402, <<"accepts", [x402Version |-> 1, accepts |-> accepts, error |-> None]>>,
                 None)

RUpto == [R0 EXCEPT !.scheme = "upto"]
RSepolia == [R0 EXCEPT !.network = "84532"]
RHexAmount == [R0 EXCEPT !.maxAmountRequired = "0x2710"]
RNow == [R0 EXCEPT !.maxTimeoutSeconds = 0]
ROtherCoin == [R0 EXCEPT !.extra = Extra("Other Coin", None)]
RBadPayTo == [R0 EXCEPT !.payTo = "0xzz"]

AcceptLists ==
  {<< >>, <<R0>>, <<RUpto>>, <<RUpto, R0>>, <<RSepolia, RHexAmount, R0>>,
   <<RBadPayTo>>, <<ROtherCoin, RSepolia>>}

FirstResponses ==
  {Accepting(a) : a \in AcceptLists} \cup
  {PaymentRequired, ServerResponse(200, <<"weather", "">>, None),
   ServerResponse(404, <<"error", "not found">>, None),
   PaymentFailed(Err("VerificationFailed", "missing header"))}

RetryResponses ==
  {Served("0xtx1", 0), PaymentRequired,
   PaymentFailed(Err("VerificationFailed", "Nonce already used")),
   ServerResponse(500, <<"error", "internal">>, None)}

ClientConfigs ==
  {ClientConfig(sch, net, key) :
     sch \in {None, "exact", "upto"}, net \in {None, "8453", "84532"},
     key \in {"0xkeyA", "nokey"}}

ClientRequests ==
  {[method |-> "GET", url |-> "/weather", body |-> None],
   [method |-> "POST", url |-> "/report", body |-> "{city}"]}

\* Requirements and keys generate_payload is called with directly.
GenRequirements == {R0, RUpto, RHexAmount, RNow, ROtherCoin, RBadPayTo}
GenKeys == {"0xkeyA", "keyB", "nokey"}

\* ------------------------------------------------------------------- state
VARIABLES
  workload,     \* "sequential", "concurrent" or "server": which callers there are
  supported,    \* FacilitatorConfig.supported
  started,      \* the service is serving (the config is behind an Arc)
  keyOk,        \* FacilitatorConfig.private_key parses as a wallet key
  usedNonces,   \* FacilitatorConfig.used_nonces
  slots,        \* the handler task running in each slot
  now,          \* UNIX time, read by current_timestamp and by the chain
  authState,    \* the contract's authorizationState: consumed (authorizer, nonce)
  chainTxs,     \* transactions submitted to the chain, in submission order
  settled,      \* history: headers for which /settle answered with a txHash
  srv,          \* the weather_handler task of the resource server
  cli,          \* a request_with_payment call of the client
  gen,          \* an ExactEvm::generate_payload call
  outbox,       \* the payload last generated by a direct call, with its requirements
  lib,          \* the last call of a library function that keeps no task, and its result
  recorded      \* history: (authorizer, nonce string) of the payloads /settle inserted

vars ==
  <<workload, supported, started, keyOk, usedNonces, slots, now, authState,
    chainTxs, settled, srv, cli, gen, outbox, lib, recorded>>

IdleSlot ==
  [pc |-> "idle", kind |-> "verify", origin |-> "direct", h |-> HBase, r |-> R0,
   replay |-> FALSE, windowOk |-> FALSE, chainId |-> None, authSeen |-> None,
   schemeVerify |-> None, rpcCalls |-> 0, localChecked |-> FALSE,
   nonceSeen |-> None,
   verification |-> Invalid(None), inserted |-> FALSE, schemeSettle |-> None,
   tx |-> 0, handlerOk |-> TRUE, status |-> 0,
   settlement |-> SettlementResponse("", None)]

IdleServer ==
  [pc |-> "idle", x |-> "absent", h |-> HBase, slot |-> "h1",
   verifyStatus |-> 0, verifyReply |-> Invalid(None),
   settleStatus |-> 0, settleReply |-> SettlementResponse("", None),
   resp |-> ServerResponse(0, <<"none", "">>, None)]

IdleClient ==
  [pc |-> "idle", cfg |-> ClientConfig(None, None, "nokey"),
   req |-> [method |-> "GET", url |-> "/weather", body |-> None],
   sent |-> << >>, first |-> NoResponse, selection |-> Err("NotRun", ""),
   dispatched |-> FALSE, generation |-> Err("NotRun", ""),
   retry |-> NoResponse, result |-> Err("NotRun", "")]

\* No library call yet; `adds` counts the add_supported calls made.
IdleLib == [op |-> "none", arg |-> None, out |-> None, adds |-> 0]

IdleGen ==
  [pc |-> "idle", origin |-> "direct", r |-> R0, key |-> "nokey", rpcCalls |-> 0,
   res |-> Err("NotRun", "")]

Init ==
  /\ workload \in {"sequential", "concurrent", "server", "client", "roundtrip",
                   "library"}
  /\ supported = InitialSupported
  /\ started = FALSE
  /\ keyOk \in BOOLEAN
  /\ usedNonces = {}
  /\ slots = [s \in Slots |-> IdleSlot]
  /\ now = 0
  /\ authState = {}
  /\ chainTxs = << >>
  /\ settled = {}
  /\ srv = IdleServer
  /\ cli = IdleClient
  /\ gen = IdleGen
  /\ outbox = << >>
  /\ lib = IdleLib
  /\ recorded = {}

\* The workloads bound what is explored: one facilitator task at a time over
\* every kind of input; two tasks racing over one payload; the weather endpoint
\* as the facilitator's only caller, over every kind of header; the client
\* against any server; generated payloads sent to the facilitator.
Inputs(kind) ==
  CASE workload = "sequential" ->
         IF kind = "settle" THEN SequentialSettleInputs ELSE SequentialInputs
    [] workload = "concurrent" -> ConcurrentInputs
    [] workload = "roundtrip" -> {outbox[i] : i \in DOMAIN outbox}
    [] OTHER -> {}

Usable(s) == workload = "concurrent" \/ s = "h1"

\* Once MaxTx transactions were submitted the node stops taking more.
NodeAnswers == IF Len(chainTxs) < MaxTx THEN BOOLEAN ELSE {FALSE}

\* The code of a Result<bool> or Result<String> kept in the task's record.
ResultCode(res) == IF ~res.ok THEN res.kind ELSE IF res.v = FALSE THEN "false" ELSE "true"

\* handle_settle once scheme.settle has returned, and settle_handler's status.
FinishSettle(rec, res) ==
  [rec EXCEPT !.pc = "done",
              !.schemeSettle = IF res.ok THEN "Ok" ELSE res.kind,
              !.settlement = SettleResult(res),
              !.status = SettleHandlerStatus(TRUE, SettleResult(res))]

\* What follows handle_verify's answer: verify_handler answers it; handle_settle
\* (lines 176-199) turns an invalid one into a SettlementResponse and otherwise
\* decodes the header again and goes on to take the nonce lock.
FinishVerify(rec, vr) ==
  IF rec.kind = "verify"
    THEN [rec EXCEPT !.pc = "done", !.verification = vr,
                     !.status = VerifyHandlerStatus(TRUE)]
  ELSE IF ~vr.isValid
    THEN [rec EXCEPT !.pc = "done", !.verification = vr,
                     !.settlement = SettleRejected(vr),
                     !.status = SettleHandlerStatus(TRUE, SettleRejected(vr))]
  ELSE IF ~DecodePaymentHeader(rec.h).ok
    THEN [rec EXCEPT !.pc = "done", !.verification = vr, !.handlerOk = FALSE,
                     !.status = SettleHandlerStatus(FALSE, rec.settlement)]
  ELSE IF ~SchemeRegistered(rec.h.payload.scheme)
    THEN [rec EXCEPT !.pc = "done", !.verification = vr,
                     !.settlement = SettlementResponse("", "Unsupported scheme: "
                                                       \o rec.h.payload.scheme),
                     !.status = SettleHandlerStatus(TRUE,
                                  SettlementResponse("", "Unsupported scheme"))]
  ELSE [rec EXCEPT !.pc = "s_lock", !.verification = vr]

\* scheme.verify returned `res` without reaching Ok(true).
RejectVerify(rec, res) ==
  FinishVerify([rec EXCEPT !.schemeVerify = ResultCode(res)], VerifyRejected(res))

\* History: whether the clock was inside the payload's window when read.
ClockInWindow(p, t) ==
  /\ StringToU256(p.validAfter).ok /\ StringToU256(p.validBefore).ok
  /\ IsTimestampValid(StringToU256(p.validAfter).v, StringToU256(p.validBefore).v, t)

\* A request enters handle_verify or handle_settle and runs to its first await:
\* handle_verify lines 86-117, then ExactEvm::verify lines 232-270.
Begin(kind, origin, h, r) ==
  LET rec == [IdleSlot EXCEPT !.kind = kind, !.origin = origin, !.h = h, !.r = r,
                              !.replay = h \in settled,
                              !.windowOk = ClockInWindow(h.payload, now)]
      entry == VerifyEntry(h, supported)
      checks == VerifyChecks(h.payload, r, now)
  IN IF entry.done THEN FinishVerify(rec, entry.res)
     ELSE IF checks.done THEN RejectVerify(rec, checks.res)
     ELSE [rec EXCEPT !.pc = "v_chainid", !.schemeVerify = "running"]

\* ----------------------------------------------------------------- actions
\* FacilitatorConfig::add_supported takes &mut self: only before serving.
AddSupportedCall ==
  /\ ~started
  /\ \/ workload = "sequential" /\ Len(supported) < 1 + MaxAdds
     \/ workload = "library" /\ Len(supported) < 1 + MaxLibAdds
  /\ \E pair \in (IF workload = "library" THEN LibAddable ELSE Addable) :
       supported' = AddSupported(supported, pair[1], pair[2])
  /\ lib' = [lib EXCEPT !.adds = @ + 1]
  /\ UNCHANGED <<recorded, workload, started, keyOk, usedNonces, slots, now, authState,
                 chainTxs, settled, srv>>
  /\ UNCHANGED <<cli, gen, outbox>>

Start ==
  /\ ~started /\ started' = TRUE
  /\ UNCHANGED lib
  /\ UNCHANGED <<recorded, workload, supported, keyOk, usedNonces, slots, now, authState,
                 chainTxs, settled, srv>>
  /\ UNCHANGED <<cli, gen, outbox>>

\* POST /verify from any caller.
VerifyRequest(s) ==
  /\ started /\ Usable(s) /\ slots[s].pc = "idle"
  /\ \E in \in Inputs("verify") :
       slots' = [slots EXCEPT ![s] = Begin("verify", "direct", in[1], in[2])]
  /\ UNCHANGED lib
  /\ UNCHANGED <<recorded, workload, supported, started, keyOk, usedNonces, now, authState,
                 chainTxs, settled, srv>>
  /\ UNCHANGED <<cli, gen, outbox>>

\* POST /settle from any caller.
SettleRequest(s) ==
  /\ started /\ Usable(s) /\ slots[s].pc = "idle"
  /\ \E in \in Inputs("settle") :
       slots' = [slots EXCEPT ![s] = Begin("settle", "direct", in[1], in[2])]
  /\ UNCHANGED lib
  /\ UNCHANGED <<recorded, workload, supported, started, keyOk, usedNonces, now, authState,
                 chainTxs, settled, srv>>
  /\ UNCHANGED <<cli, gen, outbox>>

\* ExactEvm::verify: provider.get_chainid().await, then the nonce is decoded.
VerifyChainId(s) ==
  /\ slots[s].pc = "v_chainid"
  /\ \E rpcOk \in BOOLEAN :
       LET rec == [slots[s] EXCEPT !.rpcCalls = @ + 1]
           parsed == VerifyParseNonce(rec.h.payload)
       IN slots' = [slots EXCEPT ![s] =
            IF ~rpcOk THEN RejectVerify(rec, Err("BlockchainError", "rpc failed"))
            ELSE IF parsed.done THEN RejectVerify(rec, parsed.res)
            ELSE [rec EXCEPT !.pc = "v_authstate", !.chainId = ChainId]]
  /\ UNCHANGED lib
  /\ UNCHANGED <<recorded, workload, supported, started, keyOk, usedNonces, now, authState,
                 chainTxs, settled, srv>>
  /\ UNCHANGED <<cli, gen, outbox>>

\* ExactEvm::verify: authorization_state(from, nonce).call().await
\* .unwrap_or(true), then the rest of verify.
VerifyAuthState(s) ==
  /\ slots[s].pc = "v_authstate"
  /\ \E rpcOk \in BOOLEAN :
       LET p == slots[s].h.payload
           isUsed == AuthStateOrDefault(rpcOk,
                       <<ParseAddress(p.from).v, DecodeNonce(p.nonce).v>> \in authState)
           rec == [slots[s] EXCEPT !.rpcCalls = @ + 1,
                     !.authSeen = IF ~rpcOk THEN "failed"
                                  ELSE IF isUsed THEN "used" ELSE "unused"]
           res == VerifyAfterAuthState(p, rec.r, rec.chainId, isUsed)
       IN slots' = [slots EXCEPT ![s] =
            IF res.ok /\ res.v THEN [rec EXCEPT !.pc = "v_lock", !.schemeVerify = "true"]
            ELSE RejectVerify(rec, res)]
  /\ UNCHANGED lib
  /\ UNCHANGED <<recorded, workload, supported, started, keyOk, usedNonces, now, authState,
                 chainTxs, settled, srv>>
  /\ UNCHANGED <<cli, gen, outbox>>

\* handle_verify: used_nonces.write().await and the contains check.
VerifyLocalNonce(s) ==
  /\ slots[s].pc = "v_lock"
  /\ slots' = [slots EXCEPT ![s] =
       FinishVerify([slots[s] EXCEPT !.localChecked = TRUE,
                      !.nonceSeen = IF slots[s].h.payload.nonce \in usedNonces
                                      THEN "present" ELSE "absent"],
                    LocalNonceCheck(usedNonces, slots[s].h.payload))]
  /\ usedNonces' = ReleaseNonces(usedNonces, slots[s].h.payload)
  /\ UNCHANGED lib
  /\ UNCHANGED <<recorded, workload, supported, started, keyOk, now, authState,
                 chainTxs, settled, srv>>
  /\ UNCHANGED <<cli, gen, outbox>>

\* handle_settle: used_nonces.write().await, insert, then ExactEvm::settle up
\* to its get_chainid().await.
SettleInsertNonce(s) ==
  /\ slots[s].pc = "s_lock"
  /\ usedNonces' = InsertNonce(usedNonces, slots[s].h.payload)
  /\ recorded' = IF slots[s].h.payload.parses
                   THEN recorded \cup {<<ParseAddress(slots[s].h.payload.from).v,
                                         slots[s].h.payload.nonce>>}
                   ELSE recorded
  /\ LET rec == [slots[s] EXCEPT !.inserted = TRUE, !.schemeSettle = "running"]
         checks == SettleChecks(rec.h.payload, rec.r, keyOk)
     IN slots' = [slots EXCEPT ![s] =
          IF checks.done THEN FinishSettle(rec, checks.res)
          ELSE [rec EXCEPT !.pc = "s_chainid"]]
  /\ UNCHANGED lib
  /\ UNCHANGED <<workload, supported, started, keyOk, now, authState, chainTxs,
                 settled, srv>>
  /\ UNCHANGED <<cli, gen, outbox>>

\* ExactEvm::settle: provider.get_chainid().await
SettleChainId(s) ==
  /\ slots[s].pc = "s_chainid"
  /\ \E rpcOk \in BOOLEAN :
       slots' = [slots EXCEPT ![s] =
         IF rpcOk THEN [slots[s] EXCEPT !.pc = "s_send", !.rpcCalls = @ + 1]
         ELSE FinishSettle([slots[s] EXCEPT !.rpcCalls = @ + 1],
                           Err("BlockchainError", "rpc failed"))]
  /\ UNCHANGED lib
  /\ UNCHANGED <<recorded, workload, supported, started, keyOk, usedNonces, now, authState,
                 chainTxs, settled, srv>>
  /\ UNCHANGED <<cli, gen, outbox>>

\* ExactEvm::settle: call.send().await.  The node estimates gas first, which
\* fails when the call would revert now; the RPC can fail for its own reasons.
SettleSend(s) ==
  /\ slots[s].pc = "s_send"
  /\ \E rpcOk \in NodeAnswers :
       LET call == SettleCall(slots[s].h.payload, slots[s].r)
           rec == [slots[s] EXCEPT !.rpcCalls = @ + 1]
       IN IF rpcOk /\ ContractAccepts(call, now, authState)
            THEN /\ chainTxs' = Append(chainTxs, [call |-> call, status |-> "pending"])
                 /\ slots' = [slots EXCEPT ![s] =
                               [rec EXCEPT !.pc = "s_receipt", !.tx = Len(chainTxs) + 1]]
            ELSE /\ chainTxs' = chainTxs
                 /\ slots' = [slots EXCEPT ![s] =
                      FinishSettle(rec, Err("SettlementError", "Transaction failed"))]
  /\ UNCHANGED lib
  /\ UNCHANGED <<recorded, workload, supported, started, keyOk, usedNonces, now, authState,
                 settled, srv>>
  /\ UNCHANGED <<cli, gen, outbox>>

\* ExactEvm::settle: pending_tx.await, then the hash of whatever receipt came.
SettleReceipt(s) ==
  /\ slots[s].pc = "s_receipt"
  /\ \E rpcOk \in BOOLEAN :
       LET st == chainTxs[slots[s].tx].status
           rec == [slots[s] EXCEPT !.rpcCalls = @ + 1]
       IN /\ ~rpcOk \/ st /= "pending"
          /\ slots' = [slots EXCEPT ![s] =
               IF ~rpcOk THEN FinishSettle(rec, Err("SettlementError", "Receipt error"))
               ELSE IF st = "dropped"
                 THEN FinishSettle(rec, Err("SettlementError", "No receipt"))
               ELSE FinishSettle(rec, Ok(TxHash(rec.tx)))]
  /\ UNCHANGED lib
  /\ UNCHANGED <<recorded, workload, supported, started, keyOk, usedNonces, now, authState,
                 chainTxs, settled, srv>>
  /\ UNCHANGED <<cli, gen, outbox>>

\* The answer is written to the caller and the task ends.
Respond(s) ==
  /\ slots[s].pc = "done" /\ slots[s].origin = "direct"
  /\ settled' = IF slots[s].kind = "settle" /\ slots[s].settlement.txHash /= ""
                  THEN settled \cup {slots[s].h} ELSE settled
  /\ slots' = [slots EXCEPT ![s] = IdleSlot]
  /\ UNCHANGED lib
  /\ UNCHANGED <<recorded, workload, supported, started, keyOk, usedNonces, now, authState,
                 chainTxs, srv>>
  /\ UNCHANGED <<cli, gen, outbox>>

\* The caller goes away and the runtime drops the handler's future at an await.
Cancel(s) ==
  /\ slots[s].pc \notin {"idle", "done"} /\ slots[s].origin = "direct"
  /\ slots' = [slots EXCEPT ![s] = IdleSlot]
  /\ UNCHANGED lib
  /\ UNCHANGED <<recorded, workload, supported, started, keyOk, usedNonces, now, authState,
                 chainTxs, settled, srv>>
  /\ UNCHANGED <<cli, gen, outbox>>

\* The chain includes a pending transaction: the contract runs it, and a
\* transaction whose requires fail (or whose payer lacks funds) is mined reverted.
Mine(i) ==
  /\ chainTxs[i].status = "pending"
  /\ \E funded \in BOOLEAN :
       IF funded /\ ContractAccepts(chainTxs[i].call, now, authState)
         THEN /\ chainTxs' = [chainTxs EXCEPT ![i].status = "success"]
              /\ authState' = authState \cup {<<chainTxs[i].call.from, chainTxs[i].call.nonce>>}
         ELSE /\ chainTxs' = [chainTxs EXCEPT ![i].status = "reverted"]
              /\ authState' = authState
  /\ UNCHANGED lib
  /\ UNCHANGED <<recorded, workload, supported, started, keyOk, usedNonces, slots, now,
                 settled, srv>>
  /\ UNCHANGED <<cli, gen, outbox>>

\* The node drops a pending transaction: pending_tx.await yields None.
Drop(i) ==
  /\ chainTxs[i].status = "pending"
  /\ chainTxs' = [chainTxs EXCEPT ![i].status = "dropped"]
  /\ UNCHANGED lib
  /\ UNCHANGED <<recorded, workload, supported, started, keyOk, usedNonces, slots, now,
                 authState, settled, srv>>
  /\ UNCHANGED <<cli, gen, outbox>>

\* A request reaches weather_handler (examples/server.rs lines 38-99).  Without
\* X-PAYMENT it is answered 402; a header that is no visible ASCII is answered
\* 400; otherwise verify_and_settle_payment POSTs to {facilitator}/verify.
WeatherRequest ==
  /\ started /\ workload = "server" /\ srv.pc = "idle"
  /\ \/ /\ srv' = [srv EXCEPT !.pc = "done", !.x = "absent", !.resp = PaymentRequired]
        /\ slots' = slots
     \/ /\ srv' = [srv EXCEPT !.pc = "done", !.x = "nonascii",
                      !.resp = InvalidPayment("Invalid payment header encoding")]
        /\ slots' = slots
     \/ \E h \in WeatherHeaders, s \in Slots :
          /\ Usable(s) /\ slots[s].pc = "idle"
          /\ srv' = [srv EXCEPT !.pc = "verify_wait", !.x = "header", !.h = h, !.slot = s]
          /\ slots' = [slots EXCEPT ![s] =
                Begin("verify", "server", h, ToRequirements(WeatherConfig, "/weather"))]
  /\ UNCHANGED lib
  /\ UNCHANGED <<recorded, workload, supported, started, keyOk, usedNonces, now, authState,
                 chainTxs, settled>>
  /\ UNCHANGED <<cli, gen, outbox>>

\* verify_and_settle_payment reads the /verify answer and, when it is valid,
\* POSTs to {facilitator}/settle.
WeatherVerifyReply ==
  /\ srv.pc = "verify_wait" /\ slots[srv.slot].pc = "done"
  /\ LET rec == slots[srv.slot]
         e == VerifyReplyError(rec.status, rec.verification)
     IN IF ~e.ok
          THEN /\ srv' = [srv EXCEPT !.pc = "done", !.verifyStatus = rec.status,
                            !.verifyReply = rec.verification, !.resp = PaymentFailed(e)]
               /\ slots' = [slots EXCEPT ![srv.slot] = IdleSlot]
          ELSE /\ srv' = [srv EXCEPT !.pc = "settle_wait", !.verifyStatus = rec.status,
                            !.verifyReply = rec.verification]
               /\ slots' = [slots EXCEPT ![srv.slot] =
                     Begin("settle", "server", srv.h, ToRequirements(WeatherConfig, "/weather"))]
  /\ UNCHANGED lib
  /\ UNCHANGED <<recorded, workload, supported, started, keyOk, usedNonces, now, authState,
                 chainTxs, settled>>
  /\ UNCHANGED <<cli, gen, outbox>>

\* verify_and_settle_payment reads the /settle answer; weather_handler serves
\* the resource with X-PAYMENT-RESPONSE, or answers 402.
WeatherSettleReply ==
  /\ srv.pc = "settle_wait" /\ slots[srv.slot].pc = "done"
  /\ LET rec == slots[srv.slot]
         res == SettleReplyResult(rec.status, rec.settlement)
     IN /\ srv' = [srv EXCEPT !.pc = "done", !.settleStatus = rec.status,
                     !.settleReply = rec.settlement,
                     !.resp = IF res.ok THEN Served(res.v, now) ELSE PaymentFailed(res)]
        /\ settled' = IF rec.settlement.txHash /= "" THEN settled \cup {rec.h} ELSE settled
  /\ slots' = [slots EXCEPT ![srv.slot] = IdleSlot]
  /\ UNCHANGED lib
  /\ UNCHANGED <<recorded, workload, supported, started, keyOk, usedNonces, now, authState,
                 chainTxs>>
  /\ UNCHANGED <<cli, gen, outbox>>

\* reqwest's send().await fails (connection lost): `?` returns HttpError, and
\* the facilitator's task is left to itself.
WeatherHttpError ==
  /\ srv.pc \in {"verify_wait", "settle_wait"}
  /\ srv' = [srv EXCEPT !.pc = "done",
                !.resp = PaymentFailed(Err("HttpError", "connection closed"))]
  /\ slots' = [slots EXCEPT ![srv.slot].origin = "direct"]
  /\ UNCHANGED lib
  /\ UNCHANGED <<recorded, workload, supported, started, keyOk, usedNonces, now, authState,
                 chainTxs, settled>>
  /\ UNCHANGED <<cli, gen, outbox>>

\* The answer is written to the client.
WeatherRespond ==
  /\ srv.pc = "done" /\ srv' = IdleServer
  /\ UNCHANGED lib
  /\ UNCHANGED <<recorded, workload, supported, started, keyOk, usedNonces, slots, now,
                 authState, chainTxs, settled>>
  /\ UNCHANGED <<cli, gen, outbox>>

\* ExactEvm::generate_payload entered: lines 130-141, up to get_chainid().await.
BeginGenerate(origin, r, key) ==
  IF GenerateChecks(r, key).done
    THEN [IdleGen EXCEPT !.pc = "done", !.origin = origin, !.r = r, !.key = key,
                         !.res = GenerateChecks(r, key).res]
    ELSE [IdleGen EXCEPT !.pc = "g_chainid", !.origin = origin, !.r = r, !.key = key]

\* A wallet calls ExactEvm::generate_payload itself, for the one payment it
\* makes in a behaviour of this workload.
GenerateCall ==
  /\ workload = "roundtrip" /\ gen.pc = "idle" /\ outbox = << >>
  /\ \E r \in GenRequirements, key \in GenKeys : gen' = BeginGenerate("direct", r, key)
  /\ UNCHANGED lib
  /\ UNCHANGED <<recorded, workload, supported, started, keyOk, usedNonces, slots, now,
                 authState, chainTxs, settled, srv, cli, outbox>>

\* generate_payload: get_chainid().await, then lines 144-223.
GenerateChainId ==
  /\ gen.pc = "g_chainid"
  /\ \E rpcOk \in BOOLEAN, n \in Nonces :
       gen' = [gen EXCEPT !.pc = "done", !.rpcCalls = @ + 1,
                 !.res = IF rpcOk THEN Ok(GeneratePayload(gen.r, gen.key, ChainId, n, now))
                         ELSE Err("BlockchainError", "rpc failed")]
  /\ UNCHANGED lib
  /\ UNCHANGED <<recorded, workload, supported, started, keyOk, usedNonces, slots, now,
                 authState, chainTxs, settled, srv, cli, outbox>>

\* The direct call returns; the wallet keeps the encoded payload to send.
GenerateReturn ==
  /\ gen.pc = "done" /\ gen.origin = "direct"
  /\ outbox' = IF gen.res.ok THEN << <<Header(gen.res.v), gen.r>> >> ELSE outbox
  /\ gen' = IdleGen
  /\ UNCHANGED lib
  /\ UNCHANGED <<recorded, workload, supported, started, keyOk, usedNonces, slots, now,
                 authState, chainTxs, settled, srv, cli>>

\* request_with_payment: the first request is built and sent (lines 123-131).
ClientRequest ==
  /\ workload = "client" /\ cli.pc = "idle"
  /\ \E cfg \in ClientConfigs, req \in ClientRequests :
       cli' = [IdleClient EXCEPT !.pc = "first_wait", !.cfg = cfg, !.req = req,
                                 !.sent = <<FirstRequest(req)>>]
  /\ UNCHANGED lib
  /\ UNCHANGED <<recorded, workload, supported, started, keyOk, usedNonces, slots, now,
                 authState, chainTxs, settled, srv, gen, outbox>>

ClientFailed(rec, e) == [rec EXCEPT !.pc = "done", !.result = e]

\* Lines 136-142 on a 402: parse the body, select, dispatch on the scheme and
\* enter generate_payload.  The pair is the client's record and the generator's.
OnPaymentRequired(rec) ==
  LET info == ParsePaymentRequired(rec.first)
      sel == SelectRequirement(info.v.accepts, rec.cfg)
      chosen == [rec EXCEPT !.selection = sel]
      started_ == BeginGenerate("client", sel.v, rec.cfg.privateKey)
  IN IF ~info.ok THEN <<ClientFailed(rec, info), IdleGen>>
     ELSE IF ~sel.ok THEN <<ClientFailed(chosen, sel), IdleGen>>
     ELSE IF ~DispatchScheme(sel.v).ok
       THEN <<ClientFailed(chosen, DispatchScheme(sel.v)), IdleGen>>
     ELSE IF started_.pc = "done"
       THEN <<ClientFailed([chosen EXCEPT !.dispatched = TRUE,
                                          !.generation = started_.res], started_.res),
              IdleGen>>
     ELSE <<[chosen EXCEPT !.pc = "generating", !.dispatched = TRUE], started_>>

\* The first response arrives, or the connection fails (lines 131-142, 169-172).
ClientFirstResponse ==
  /\ cli.pc = "first_wait"
  /\ \/ /\ cli' = ClientFailed(cli, Err("HttpError", "connection failed"))
        /\ gen' = gen
     \/ \E resp \in FirstResponses :
          LET rec == [cli EXCEPT !.first = resp]
          IN IF ~IsPaymentRequired(resp.status)
               THEN /\ cli' = [rec EXCEPT !.pc = "done", !.result = Ok(resp)]
                    /\ gen' = gen
               ELSE /\ cli' = OnPaymentRequired(rec)[1]
                    /\ gen' = OnPaymentRequired(rec)[2]
  /\ UNCHANGED lib
  /\ UNCHANGED <<recorded, workload, supported, started, keyOk, usedNonces, slots, now,
                 authState, chainTxs, settled, srv, outbox>>

\* generate_payload returned: encode the payload and send the retry (lines
\* 142-155), or return its error.
ClientRetry ==
  /\ cli.pc = "generating" /\ gen.pc = "done" /\ gen.origin = "client"
  /\ cli' = IF ~gen.res.ok
              THEN ClientFailed([cli EXCEPT !.generation = gen.res], gen.res)
              ELSE [cli EXCEPT !.pc = "retry_wait", !.generation = gen.res,
                      !.sent = Append(@, RetryRequest(cli.req, Header(gen.res.v)))]
  /\ gen' = IdleGen
  /\ UNCHANGED lib
  /\ UNCHANGED <<recorded, workload, supported, started, keyOk, usedNonces, slots, now,
                 authState, chainTxs, settled, srv, outbox>>

\* The retry's response arrives, or the connection fails (lines 155-168).
ClientRetryResponse ==
  /\ cli.pc = "retry_wait"
  /\ \/ cli' = ClientFailed(cli, Err("HttpError", "connection failed"))
     \/ \E resp \in RetryResponses :
          cli' = [cli EXCEPT !.pc = "done", !.retry = resp, !.result = RetryResult(resp)]
  /\ UNCHANGED lib
  /\ UNCHANGED <<recorded, workload, supported, started, keyOk, usedNonces, slots, now,
                 authState, chainTxs, settled, srv, gen, outbox>>

\* request_with_payment has returned.
ClientReturn ==
  /\ cli.pc = "done" /\ cli' = IdleClient
  /\ UNCHANGED lib
  /\ UNCHANGED <<recorded, workload, supported, started, keyOk, usedNonces, slots, now,
                 authState, chainTxs, settled, srv, gen, outbox>>

\* FacilitatorConfig::is_supported called on the configuration.
IsSupportedCall ==
  /\ workload = "library"
  /\ \E pair \in QueryPairs :
       lib' = [lib EXCEPT !.op = "is_supported", !.arg = pair,
                          !.out = IsSupported(supported, pair[1], pair[2])]
  /\ UNCHANGED <<recorded, workload, supported, started, keyOk, usedNonces, slots, now,
                 authState, chainTxs, settled, srv, cli, gen, outbox>>

\* GET /supported: supported_handler answers handle_supported's list.
SupportedRequest ==
  /\ workload = "library" /\ started
  /\ lib' = [lib EXCEPT !.op = "supported", !.arg = None,
                        !.out = HandleSupported(supported)]
  /\ UNCHANGED <<recorded, workload, supported, started, keyOk, usedNonces, slots, now,
                 authState, chainTxs, settled, srv, cli, gen, outbox>>

\* create_payment_required_response called with a map of options.
CreatePaymentRequiredCall ==
  /\ workload = "library"
  /\ \E configs \in ConfigMaps, resource \in {"/weather", "/premium"} :
       \E order \in Orders(DOMAIN configs) :
         lib' = [lib EXCEPT
                   !.op = "payment_required",
                   !.arg = [configs |-> configs, resource |-> resource],
                   !.out = CreatePaymentRequiredResponse(
                             [i \in DOMAIN order |-> configs[order[i]]], resource)]
  /\ UNCHANGED <<recorded, workload, supported, started, keyOk, usedNonces, slots, now,
                 authState, chainTxs, settled, srv, cli, gen, outbox>>

Tick ==
  /\ now < MaxTime /\ now' = now + 1
  /\ UNCHANGED lib
  /\ UNCHANGED <<recorded, workload, supported, started, keyOk, usedNonces, slots, authState,
                 chainTxs, settled, srv>>
  /\ UNCHANGED <<cli, gen, outbox>>

Next ==
  \/ AddSupportedCall \/ Start \/ Tick
  \/ IsSupportedCall \/ SupportedRequest \/ CreatePaymentRequiredCall
  \/ \E s \in Slots :
       \/ VerifyRequest(s) \/ SettleRequest(s) \/ VerifyChainId(s) \/ VerifyAuthState(s)
       \/ VerifyLocalNonce(s) \/ SettleInsertNonce(s) \/ SettleChainId(s)
       \/ SettleSend(s) \/ SettleReceipt(s) \/ Respond(s) \/ Cancel(s)
  \/ \E i \in DOMAIN chainTxs : Mine(i) \/ Drop(i)
  \/ WeatherRequest \/ WeatherVerifyReply \/ WeatherSettleReply
  \/ WeatherHttpError \/ WeatherRespond
  \/ GenerateCall \/ GenerateChainId \/ GenerateReturn
  \/ ClientRequest \/ ClientFirstResponse \/ ClientRetry \/ ClientRetryResponse
  \/ ClientReturn

Spec == Init /\ [][Next]_vars

\* ------------------------------------------------------------------ claims
Busy == {s \in Slots : slots[s].pc /= "idle"}
Answered == {s \in Slots : slots[s].pc = "done"}

\* C1: once a /settle call has returned a SettlementResponse with a non-empty
\* txHash for a payload, every later /verify call with the same payload answers
\* isValid = false and every later /settle call with it answers an empty txHash
\* and an error.
C1_ReplayRejected ==
  \A s \in Answered :
    slots[s].replay =>
      IF slots[s].kind = "verify"
        THEN ~slots[s].verification.isValid
        ELSE slots[s].settlement.txHash = "" /\ slots[s].settlement.error /= None

\* A replayed payload the chain still reports unused (its transaction reverted)
\* was turned down by the facilitator's own set.
C1_Witness ==
  \E s \in Answered :
    /\ slots[s].replay /\ slots[s].localChecked
    /\ slots[s].nonceSeen = "present" /\ ~slots[s].verification.isValid

\* C2: ExactEvm.verify returns true only if the payload's scheme is "exact",
\* its network is the requirements' network, `to` is the same address as payTo,
\* `value` is the same number as maxAmountRequired, the clock is within
\* [validAfter, validBefore], the recovered signer is `from`, and the token's
\* authorizationState(from, nonce) read false; 9999 against 10000 is never valid.
C2_VerifyTrueOnlyIf ==
  \A s \in Busy :
    slots[s].schemeVerify = "true" =>
      LET p == slots[s].h.payload
          r == slots[s].r
      IN /\ p.parses
         /\ p.scheme = "exact"
         /\ p.network = r.network
         /\ ParseAddress(p.to).ok /\ ParseAddress(r.payTo).ok
         /\ ParseAddress(p.to).v = ParseAddress(r.payTo).v
         /\ StringToU256(p.value).ok /\ StringToU256(r.maxAmountRequired).ok
         /\ StringToU256(p.value).v = StringToU256(r.maxAmountRequired).v
         /\ ~(StringToU256(p.value).v = 9999 /\ StringToU256(r.maxAmountRequired).v = 10000)
         /\ slots[s].windowOk
         /\ ParseAddress(p.from).ok
         /\ Recover(p.signature, MessageHash(p, r, ChainId)).ok
         /\ Recover(p.signature, MessageHash(p, r, ChainId)).v = ParseAddress(p.from).v
         /\ slots[s].authSeen = "unused"

\* verify returned true for a payload whose `to` and `value` are written
\* differently from the requirements' payTo and maxAmountRequired.
C2_Witness ==
  \E s \in Busy :
    /\ slots[s].schemeVerify = "true"
    /\ slots[s].h.payload.value /= slots[s].r.maxAmountRequired
    /\ slots[s].h.payload.to /= slots[s].r.payTo

\* C3: handle_verify answers isValid = true exactly when the header decodes,
\* the (scheme, network) pair is supported, the scheme is registered,
\* scheme.verify returned true and the nonce was not in usedNonces; the checks
\* run in that order, so scheme.verify and its RPC calls are never made for an
\* unsupported pair or an unregistered scheme, and the local nonce check runs
\* only after scheme.verify returned true.
C3_HandleVerify ==
  \A s \in Busy :
    LET rec == slots[s]
        entryOk == /\ DecodePaymentHeader(rec.h).ok
                   /\ IsSupported(supported, rec.h.payload.scheme, rec.h.payload.network)
                   /\ SchemeRegistered(rec.h.payload.scheme)
    IN /\ rec.verification.isValid <=>
            (entryOk /\ rec.schemeVerify = "true" /\ rec.nonceSeen = "absent")
       /\ ~entryOk => (rec.schemeVerify = None /\ rec.rpcCalls = 0 /\ ~rec.localChecked)
       /\ rec.localChecked => rec.schemeVerify = "true"
       /\ rec.nonceSeen /= None => rec.localChecked

\* handle_verify answered valid with a pair that add_supported registered.
C3_Witness ==
  \E s \in Answered :
    /\ slots[s].kind = "verify" /\ slots[s].verification.isValid
    /\ slots[s].localChecked /\ slots[s].h.payload.network = "84532"

\* C4: a /settle call whose internal verification is invalid answers an empty
\* txHash and an error equal to the verification's invalidReason, never calls
\* scheme.settle and never inserts the nonce into usedNonces.
C4_SettleOfInvalid ==
  \A s \in Answered :
    (slots[s].kind = "settle" /\ ~slots[s].verification.isValid) =>
      /\ slots[s].settlement.txHash = ""
      /\ slots[s].settlement.error /= None
      /\ slots[s].settlement.error = slots[s].verification.invalidReason
      /\ slots[s].schemeSettle = None
      /\ ~slots[s].inserted
      /\ slots[s].tx = 0

\* /settle turned down an underpaying payload.
C4_Witness ==
  \E s \in Answered :
    /\ slots[s].kind = "settle" /\ ~slots[s].verification.isValid
    /\ slots[s].h = HUnderpaid /\ slots[s].settlement.error = "Verification failed"

Submitted == {chainTxs[i].call.nonce : i \in DOMAIN chainTxs}

C7_SettlementResponseShape ==
  \A s \in Answered :
    slots[s].kind = "settle" =>
      /\ slots[s].handlerOk
      /\ (slots[s].settlement.txHash /= "") <=> (slots[s].settlement.error = None)
      /\ (slots[s].status = 200) <=> (slots[s].settlement.error = None)
      /\ slots[s].settlement.error /= None => slots[s].status = 400

\* scheme.settle failed after the nonce was inserted and /settle answered 400.
C7_Witness ==
  \E s \in Answered :
    /\ slots[s].kind = "settle" /\ slots[s].inserted
    /\ slots[s].settlement.error /= None /\ slots[s].status = 400

\* C8: handle_verify never returns an error for a well-formed request: every
\* verification failure, the errors raised by scheme.verify included, becomes a
\* VerificationResponse with isValid = false and an invalidReason, and the
\* /verify endpoint answers 200.
C8_VerifyNeverErrs ==
  \A s \in Answered :
    slots[s].kind = "verify" =>
      /\ slots[s].handlerOk
      /\ slots[s].status = 200
      /\ ~slots[s].verification.isValid => slots[s].verification.invalidReason /= None
      /\ slots[s].schemeVerify \notin {None, "running", "true"} =>
           ~slots[s].verification.isValid

\* scheme.verify raised a SignatureError and /verify still answered 200.
C8_Witness ==
  \E s \in Answered :
    /\ slots[s].kind = "verify" /\ slots[s].schemeVerify = "SignatureError"
    /\ slots[s].status = 200 /\ ~slots[s].verification.isValid

\* C9: usedNonces is additive-only: no step removes a nonce from it.
C9_AdditiveOnly == [][usedNonces \subseteq usedNonces']_vars

\* A second nonce was inserted next to the first.
C9_Witness == Cardinality(usedNonces) >= 2

\* C10: the protected endpoint answers a request without X-PAYMENT with 402 and
\* a PaymentRequiredResponse; it answers 200 only after the facilitator's
\* /verify said valid and its /settle succeeded, and then X-PAYMENT-RESPONSE is
\* base64(JSON(PaymentResponse)) carrying that settlement's txHash; the resource
\* is never served otherwise.
C10_ProtectedEndpoint ==
  srv.pc = "done" =>
    /\ srv.x = "absent" =>
         /\ srv.resp.status = 402
         /\ srv.resp.body = <<"accepts", CreatePaymentRequiredResponse(<<WeatherConfig>>, "/weather")>>
         /\ Len(srv.resp.body[2].accepts) >= 1
    /\ (srv.resp.status = 200 \/ srv.resp.body[1] = "weather") =>
         /\ srv.resp.status = 200 /\ srv.resp.body[1] = "weather"
         /\ srv.x = "header"
         /\ srv.verifyStatus = 200 /\ srv.verifyReply.isValid
         /\ srv.settleStatus = 200 /\ srv.settleReply.error = None
         /\ srv.settleReply.txHash /= ""
         /\ srv.resp.xPaymentResponse /= None
         /\ Base64Decode(srv.resp.xPaymentResponse)[1] = "json"
         /\ Base64Decode(srv.resp.xPaymentResponse)[2] = <<"txHash", srv.settleReply.txHash>>
    /\ srv.resp.status /= 200 => srv.resp.xPaymentResponse = None

\* The weather was served after a settlement.
C10_Witness == srv.pc = "done" /\ srv.resp.status = 200 /\ srv.x = "header"

\* C11: verify_and_settle_payment POSTs to /settle only after /verify answered
\* isValid = true; when the answer is not valid or not a success status it
\* returns VerificationFailed with the invalidReason and never calls /settle.
C11_SettleOnlyAfterValid ==
  /\ \A s \in Busy :
       (slots[s].origin = "server" /\ slots[s].kind = "settle") =>
         /\ srv.pc = "settle_wait" /\ srv.slot = s
         /\ srv.verifyStatus = 200 /\ srv.verifyReply.isValid
  /\ srv.pc = "settle_wait" => (srv.verifyStatus = 200 /\ srv.verifyReply.isValid)
  /\ (srv.pc = "done" /\ srv.verifyStatus /= 0
        /\ (~srv.verifyReply.isValid \/ srv.verifyStatus /= 200)) =>
       /\ srv.settleStatus = 0
       /\ \A s \in Busy : slots[s].origin /= "server"
       /\ srv.resp.status = 402
       /\ srv.resp.body[1] = "error"
       /\ srv.resp.body[2] \in
            {ErrorPrefix("VerificationFailed") \o "Facilitator verification failed",
             ErrorPrefix("VerificationFailed") \o
               (IF srv.verifyReply.invalidReason = None THEN "Unknown reason"
                ELSE srv.verifyReply.invalidReason)}

\* /verify turned an underpaying header down and no /settle followed.
C11_Witness ==
  /\ srv.pc = "done" /\ srv.h = HUnderpaid
  /\ srv.verifyStatus = 200 /\ ~srv.verifyReply.isValid /\ srv.settleStatus = 0

\* C12: verify_and_settle_payment returns Ok(txHash) only if /verify answered
\* valid and /settle answered without error; a settlement answer with error set
\* (status 400, empty txHash) becomes a SettlementError, so an empty txHash is
\* never returned as a success.
C12_OkOnlyAfterSettlement ==
  (srv.pc = "done" /\ srv.settleStatus /= 0) =>
    /\ srv.verifyReply.isValid
    /\ srv.settleReply.error /= None =>
         /\ srv.settleStatus = 400 /\ srv.settleReply.txHash = ""
         /\ srv.resp.status = 402 /\ srv.resp.body[1] = "error"
         /\ srv.resp.body[2] \in
              {ErrorPrefix("SettlementError") \o "Facilitator settlement failed",
               ErrorPrefix("SettlementError") \o srv.settleReply.error}
    /\ srv.resp.status = 200 =>
         /\ srv.settleReply.error = None
         /\ srv.resp.body = <<"weather", srv.settleReply.txHash>>
         /\ srv.resp.body[2] /= ""

\* /settle answered 400 with an error after a valid /verify.
C12_Witness ==
  /\ srv.pc = "done" /\ srv.settleStatus = 400 /\ srv.settleReply.error /= None
  /\ srv.verifyReply.isValid /\ srv.resp.status = 402

\* C13: request_with_payment sends at most two HTTP requests per call, the
\* original and at most one retry; the retry's response is returned whatever
\* its status, a second 402 included, and the call ends there.
C13_AtMostOneRetry ==
  /\ Len(cli.sent) <= 2
  /\ Len(cli.sent) = 2 => cli.pc \in {"retry_wait", "done"}
  /\ (cli.pc = "done" /\ cli.retry.status /= 0) =>
       /\ Len(cli.sent) = 2
       /\ cli.result.ok
       /\ cli.result.v = cli.retry

\* The retry was answered 402 again and that response was returned.
C13_Witness ==
  /\ cli.pc = "done" /\ Len(cli.sent) = 2
  /\ cli.retry.status = 402 /\ cli.result.ok

\* C14: when the first response's status is not 402 it is returned unchanged,
\* no payment payload is generated (no RPC call, no signing) and no second
\* request is sent.
C14_NoPaymentWithout402 ==
  (cli.pc /= "idle" /\ cli.first.status \notin {0, 402}) =>
    /\ cli.pc = "done"
    /\ cli.result.ok
    /\ cli.result.v = cli.first
    /\ Len(cli.sent) = 1
    /\ cli.selection.kind = "NotRun"
    /\ ~cli.dispatched
    /\ cli.generation.kind = "NotRun"
    /\ gen.pc = "idle" /\ gen.rpcCalls = 0

\* A 404 was handed back as it came.
C14_Witness ==
  /\ cli.pc = "done" /\ cli.first.status = 404
  /\ cli.result.ok /\ Len(cli.sent) = 1

\* The entries of the 402 body the client's preferences admit.
Admitted ==
  {i \in DOMAIN cli.first.body[2].accepts :
     /\ cli.cfg.preferredScheme /= None =>
          cli.first.body[2].accepts[i].scheme = cli.cfg.preferredScheme
     /\ cli.cfg.preferredNetwork /= None =>
          cli.first.body[2].accepts[i].network = cli.cfg.preferredNetwork}

\* C15: select_requirement returns the first entry of accepts, in list order,
\* whose scheme equals preferred_scheme (when set) and whose network equals
\* preferred_network (when set); it fails with NoSuitableRequirement exactly
\* when no entry passes both filters, an empty list included.
C15_FirstAdmitted ==
  cli.selection.kind /= "NotRun" =>
    /\ cli.selection.ok <=> Admitted /= {}
    /\ ~cli.selection.ok => cli.selection.kind = "NoSuitableRequirement"
    /\ cli.selection.ok =>
         \E i \in Admitted :
           /\ \A j \in Admitted : i <= j
           /\ cli.selection.v = cli.first.body[2].accepts[i]

\* Two entries were admitted and the earlier one, not the list's head, was taken.
C15_Witness ==
  /\ cli.selection.ok
  /\ Cardinality(Admitted) = 2 /\ 1 \notin Admitted
  /\ cli.selection.v = cli.first.body[2].accepts[2]

\* C16: when selection fails with NoSuitableRequirement, or the selected scheme
\* is not registered (UnsupportedScheme), or payload generation fails,
\* request_with_payment returns that error and sends no retry.
C16_NoRetryOnError ==
  /\ (cli.pc = "done" /\ cli.selection.kind = "NoSuitableRequirement") =>
       (~cli.result.ok /\ cli.result.kind = "NoSuitableRequirement" /\ Len(cli.sent) = 1)
  /\ (cli.selection.ok /\ cli.selection.v.scheme /= "exact") =>
       /\ cli.pc = "done" /\ ~cli.dispatched /\ Len(cli.sent) = 1
       /\ ~cli.result.ok /\ cli.result.kind = "UnsupportedScheme"
  /\ (cli.pc = "done" /\ cli.generation.kind \notin {"NotRun", "Ok"}) =>
       /\ ~cli.result.ok /\ cli.result.kind = cli.generation.kind
       /\ cli.result.v = cli.generation.v
       /\ Len(cli.sent) = 1

\* The client prefers "upto", the 402 body offers only "exact".
C16_Witness ==
  /\ cli.pc = "done" /\ cli.cfg.preferredScheme = "upto"
  /\ cli.first = PaymentRequired
  /\ cli.result.kind = "NoSuitableRequirement" /\ Len(cli.sent) = 1

\* C17: the retry has the method, URL and body of the first request and differs
\* only by the X-PAYMENT header, whose value is encode(payload) for the payload
\* generated from the selected requirement; it is sent only after the 402 was
\* received and the payload was generated.
C17_RetryIsSameRequest ==
  /\ Len(cli.sent) >= 1 =>
       cli.sent[1] = HttpRequest(cli.req.method, cli.req.url, cli.req.body, None)
  /\ Len(cli.sent) = 2 =>
       /\ cli.first.status = 402
       /\ cli.selection.ok /\ cli.generation.ok
       /\ cli.sent[2].method = cli.sent[1].method
       /\ cli.sent[2].url = cli.sent[1].url
       /\ cli.sent[2].body = cli.sent[1].body
       /\ cli.sent[2].xPayment = Header(cli.generation.v)
       /\ cli.generation.v.network = cli.selection.v.network
       /\ ParseAddress(cli.generation.v.to).v = ParseAddress(cli.selection.v.payTo).v
       /\ StringToU256(cli.generation.v.value).v
            = StringToU256(cli.selection.v.maxAmountRequired).v

\* A POST with a body was retried with the payment header.
C17_Witness ==
  /\ Len(cli.sent) = 2 /\ cli.sent[2].method = "POST" /\ cli.sent[2].body /= None
  /\ cli.generation.ok

\* The facilitator tasks working on the generated payload, with the
\* requirements it was generated for.
OnGenerated ==
  {s \in Busy : /\ outbox /= << >>
                /\ slots[s].h = outbox[1][1]
                /\ slots[s].r = outbox[1][2]}

\* C18: generate-then-verify round trip: for a payload produced by
\* generate_payload(R, key, rpc), verify(p, R, rpc) returns true whenever the
\* clock is within [validAfter, validBefore], the RPC answers with the same
\* chain id, and authorizationState(payer, nonce) is false on-chain.
C18_GeneratedVerifies ==
  \A s \in OnGenerated :
    (/\ slots[s].schemeVerify \notin {None, "running"}
     /\ slots[s].windowOk
     /\ slots[s].schemeVerify /= "BlockchainError"
     /\ slots[s].authSeen \notin {"failed", "used"}) =>
      slots[s].schemeVerify = "true"

\* A payload generated for a token with its own EIP-712 name, through a
\* requirements record whose amount is written in hex or whose scheme is not
\* "exact", was verified.
C18_Witness ==
  \E s \in OnGenerated :
    /\ slots[s].schemeVerify = "true"
    /\ slots[s].r = ROtherCoin
    /\ slots[s].h.payload.from = "0xb0b"

\* C19: for every requirements R whose maxAmountRequired parses to V and every
\* payer key, the payload of generate_payload has scheme = R.scheme,
\* network = R.network, x402Version = 1, value = V and to = R.payTo.
C19_GeneratedMatchesRequirements ==
  (gen.pc = "done" /\ gen.res.ok) =>
    /\ gen.res.v.scheme = gen.r.scheme
    /\ gen.res.v.network = gen.r.network
    /\ gen.res.v.x402Version = 1
    /\ StringToU256(gen.res.v.value).ok
    /\ StringToU256(gen.res.v.value).v = StringToU256(gen.r.maxAmountRequired).v
    /\ ParseAddress(gen.res.v.to).ok
    /\ ParseAddress(gen.res.v.to).v = ParseAddress(gen.r.payTo).v

\* C20: every payload that verification accepts against requirements R has
\* payload.scheme = R.scheme and payload.network = R.network: an "exact"
\* payload is never reported valid against requirements of another scheme.
C20_AcceptedSchemeMatches ==
  \A s \in Busy :
    (slots[s].schemeVerify = "true" \/ slots[s].verification.isValid) =>
      /\ slots[s].h.payload.scheme = slots[s].r.scheme
      /\ slots[s].h.payload.network = slots[s].r.network

\* A request enters slot s in this step: Begin has run, with the clock at `now`.
Entering(s) ==
  \/ slots[s].pc = "idle" /\ slots'[s].pc /= "idle"
  \/ slots[s].pc = "done" /\ slots'[s].pc /= "idle" /\ slots'[s].kind /= slots[s].kind

\* Everything ExactEvm::verify looks at before the window is in order.
ReachesWindowCheck(h, r) ==
  /\ h.wire = "ok" /\ h.payload.parses /\ h.payload.scheme = "exact"
  /\ IsSupported(supported, h.payload.scheme, h.payload.network)
  /\ h.payload.network = r.network /\ Parseable(h.payload)
  /\ ParseAddress(r.payTo).ok /\ StringToU256(r.maxAmountRequired).ok
  /\ ParseAddress(r.asset).ok
  /\ ParseAddress(h.payload.to).v = ParseAddress(r.payTo).v
  /\ StringToU256(h.payload.value).v = StringToU256(r.maxAmountRequired).v

\* C21: the validity window includes both bounds.  is_timestamp_valid(a, b) is
\* true exactly when a <= now <= b; ExactEvm::verify answers false when the
\* clock is before validAfter or after validBefore, and goes on to its RPC
\* calls when the clock is inside the window, either bound included.
C21_InclusiveWindow ==
  [][\A s \in Slots :
       Entering(s) =>
         LET h == slots'[s].h
             a == StringToU256(h.payload.validAfter)
             b == StringToU256(h.payload.validBefore)
         IN (a.ok /\ b.ok) =>
              /\ slots'[s].windowOk <=> (a.v <= now /\ now <= b.v)
              /\ ReachesWindowCheck(h, slots'[s].r) =>
                   IF a.v <= now /\ now <= b.v
                     THEN slots'[s].pc = "v_chainid"
                     ELSE /\ slots'[s].schemeVerify = "false"
                          /\ slots'[s].rpcCalls = 0]_vars

\* A payload whose window is the single instant 1 passed the check at time 1.
C21_Witness ==
  \E s \in Slots :
    /\ slots[s].h = HInstant /\ now = 1
    /\ slots[s].pc = "v_chainid" /\ slots[s].windowOk /\ slots[s].rpcCalls = 0

\* C22: x402Version is 1 in every PaymentRequiredResponse the server builds,
\* in every payload generate_payload emits, and in every payload /verify
\* reports valid: a payload of another version is not accepted.
C22_VersionOne ==
  /\ (srv.pc = "done" /\ srv.resp.body[1] = "accepts") =>
       srv.resp.body[2].x402Version = 1
  /\ (gen.pc = "done" /\ gen.res.ok) => gen.res.v.x402Version = 1
  /\ \A s \in Answered :
       slots[s].verification.isValid => slots[s].h.payload.x402Version = 1

\* The payloads that were encoded into a header: those the handlers received
\* in a decodable header, and those generate_payload returned.
EncodedPayloads ==
  {slots[s].h.payload : s \in {t \in Busy : slots[t].h.wire = "ok"}}
    \cup (IF gen.pc = "done" /\ gen.res.ok THEN {gen.res.v} ELSE {})
    \cup (IF cli.generation.ok THEN {cli.generation.v} ELSE {})

C24_OneEntryPerConfig ==
  lib.op = "payment_required" =>
    LET configs == lib.arg.configs
        accepts == lib.out.accepts
    IN /\ lib.out.x402Version = 1 /\ lib.out.error = None
       /\ Len(accepts) = Cardinality(DOMAIN configs)
       /\ \E order \in Orders(DOMAIN configs) :
            \A i \in DOMAIN order :
              /\ accepts[i].resource = lib.arg.resource
              /\ accepts[i].scheme = configs[order[i]].scheme
              /\ accepts[i].network = configs[order[i]].network
              /\ accepts[i].payTo = configs[order[i]].payTo
              /\ accepts[i].asset = configs[order[i]].asset
              /\ accepts[i].maxTimeoutSeconds = configs[order[i]].maxTimeoutSeconds

\* Two options on the same scheme, network and asset gave two entries.
C24_Witness ==
  /\ lib.op = "payment_required"
  /\ DOMAIN lib.arg.configs = {"basic", "premium"}
  /\ lib.arg.configs["basic"] = WeatherConfig
  /\ lib.arg.configs["premium"] = PremiumConfig
  /\ Len(lib.out.accepts) = 2
  /\ lib.out.accepts[1].payTo = "0xb0b"

\* C25: the supported list starts as [("exact", "8453")]; add_supported only
\* appends, one entry per call, and never removes; is_supported(s, n) is true
\* exactly when the pair (s, n) as a whole is an entry; /supported returns one
\* SupportedKind per entry, in list order, so its length is 1 plus the number
\* of add_supported calls.
C25_SupportedList ==
  [][/\ supported[1] = <<"exact", "8453">>
     /\ Len(supported) = 1 + lib.adds
     /\ Len(supported') = 1 + lib'.adds
     /\ supported' /= supported =>
          \E scheme, network \in {"exact", "upto", "8453", "84532", "137"} :
            supported' = Append(supported, <<scheme, network>>)
     /\ (lib' /= lib /\ supported' = supported /\ lib'.op = "is_supported") =>
          (lib'.out <=> \E i \in DOMAIN supported : supported[i] = lib'.arg)
     /\ (lib' /= lib /\ supported' = supported /\ lib'.op = "supported") =>
          /\ Len(lib'.out) = 1 + lib.adds
          /\ \A i \in DOMAIN supported :
               /\ lib'.out[i].scheme = supported[i][1]
               /\ lib'.out[i].network = supported[i][2]]_vars

\* After ("upto", "137") was added, ("exact", "137") is still not supported.
C25_Witness ==
  /\ lib.op = "is_supported" /\ lib.arg = <<"exact", "137">> /\ ~lib.out
  /\ lib.adds = 2 /\ Len(supported) = 3
  /\ \E i \in DOMAIN supported : supported[i] = <<"upto", "137">>

\* The payload's signature has 65 bytes and recovers to its `from` under the
\* domain of the requirements' token.
SignatureValid(s) ==
  LET res == VerifySignature(slots[s].h.payload, slots[s].r, ChainId)
  IN res.ok /\ res.v

\* C26: in ExactEvm::verify the signature is checked before the on-chain
\* authorizationState call: the contract is consulted, and NonceUsed is
\* raised, only for payloads whose signature is valid.
C26_SignatureBeforeAuthState ==
  \A s \in Busy :
    /\ slots[s].authSeen /= None => SignatureValid(s)
    /\ slots[s].schemeVerify = "NonceUsed" => SignatureValid(s)

\* The /settle tasks in flight that have called scheme.settle for nonce n.
SettleInvoked(n) ==
  {s \in Busy : /\ slots[s].kind = "settle" /\ slots[s].schemeSettle /= None
                /\ slots[s].h.payload.nonce = n}

\* C27: for any nonce string the facilitator invokes scheme.settle at most
\* once, under every interleaving of concurrent /settle calls that carry the
\* same payload: the local check and the insert act as one test-and-set.
C27_SettleOncePerNonce ==
  \A s \in Busy : Cardinality(SettleInvoked(slots[s].h.payload.nonce)) <= 1

\* C28: for any (from, nonce) at most one /settle call answers with a
\* non-empty txHash and no error, under every interleaving, given that the
\* contract executes each authorization at most once.
C28_OneSettlementPerAuthorization ==
  \A s, t \in Answered :
    (/\ s /= t
     /\ slots[s].kind = "settle" /\ slots[t].kind = "settle"
     /\ slots[s].h.payload.from = slots[t].h.payload.from
     /\ slots[s].h.payload.nonce = slots[t].h.payload.nonce
     /\ slots[s].settlement.txHash /= "" /\ slots[s].settlement.error = None) =>
      ~(slots[t].settlement.txHash /= "" /\ slots[t].settlement.error = None)

\* C29: ExactEvm::verify returns false, and does not raise, for every semantic
\* mismatch and for a payload that does not parse as a TransferAuthorization;
\* it raises only for a nonce already used and for transport/RPC failures.
C29_RaisesOnlyNonceOrTransport ==
  \A s \in Busy :
    /\ slots[s].schemeVerify \in
         {None, "running", "true", "false", "NonceUsed", "BlockchainError"}
    /\ (slots[s].schemeVerify \notin {None, "running"} /\ ~slots[s].h.payload.parses) =>
         slots[s].schemeVerify = "false"

\* C30: when the authorizationState RPC call fails, verify treats the nonce
\* as consumed: it never returns true (it raises NonceUsed), /verify answers
\* isValid = false and /settle submits no transaction.
C30_FailedAuthStateIsConsumed ==
  \A s \in Busy :
    slots[s].authSeen = "failed" =>
      /\ slots[s].schemeVerify = "NonceUsed"
      /\ slots[s].pc = "done" /\ ~slots[s].verification.isValid
      /\ ~slots[s].inserted /\ slots[s].schemeSettle = None /\ slots[s].tx = 0
      /\ slots[s].kind = "settle" =>
           slots[s].settlement.txHash = "" /\ slots[s].settlement.error /= None

\* A /settle call for a correctly signed, unused payload was refused because
\* the authorizationState call failed; nothing was submitted.
C30_Witness ==
  \E s \in Answered :
    /\ slots[s].kind = "settle" /\ slots[s].authSeen = "failed"
    /\ slots[s].h = HBase /\ slots[s].r = R0 /\ slots[s].windowOk
    /\ authState = {} /\ chainTxs = << >>

\* C31: the local used-nonce check is scoped per authorizer: the check finds a
\* payload's nonce only if /settle recorded that nonce for the same payer, so
\* payer A's nonce n does not make /verify or /settle reject payer B's valid,
\* unconsumed authorization with the same n.
C31_LocalCheckPerAuthorizer ==
  \A s \in Busy :
    slots[s].nonceSeen = "present" =>
      <<ParseAddress(slots[s].h.payload.from).v, slots[s].h.payload.nonce>> \in recorded

\* C32: the local used-nonce check identifies a nonce by its 32-byte value:
\* when the set holds a nonce that decodes to the same bytes32 as the
\* payload's (written in another case, or without the 0x prefix), the check
\* finds the payload's nonce in usedNonces.
C32_LocalCheckByValue ==
  [][\A s \in Slots :
       (~slots[s].localChecked /\ slots'[s].localChecked) =>
         ((\E n \in usedNonces :
             /\ DecodeNonce(n).ok
             /\ DecodeNonce(n).v = DecodeNonce(slots'[s].h.payload.nonce).v)
            => slots'[s].nonceSeen = "present")]_vars

\* C33: every transaction /settle submits calls transferWithAuthorization on
\* requirements.asset with `to` = requirements.payTo and value =
\* requirements.maxAmountRequired, and with from, validAfter, validBefore,
\* nonce and signature as in the payload that passed /settle's verification;
\* the payer signed that recipient and amount.
C33_SubmittedAsSigned ==
  \A s \in Busy :
    slots[s].tx /= 0 =>
      LET call == chainTxs[slots[s].tx].call
          p == slots[s].h.payload
          r == slots[s].r
      IN /\ slots[s].kind = "settle" /\ slots[s].verification.isValid
         /\ call.asset = ParseAddress(r.asset).v
         /\ call.to = ParseAddress(r.payTo).v
         /\ call.value = StringToU256(r.maxAmountRequired).v
         /\ call.from = ParseAddress(p.from).v
         /\ call.validAfter = StringToU256(p.validAfter).v
         /\ call.validBefore = StringToU256(p.validBefore).v
         /\ call.nonce = DecodeNonce(p.nonce).v
         /\ call.signature = p.signature
         /\ SignatureValid(s)

\* Transactions were submitted for two payers' authorizations.
C33_Witness ==
  /\ Len(chainTxs) = 2
  /\ chainTxs[1].call.from /= chainTxs[2].call.from
  /\ \E s \in Busy : slots[s].tx = 2

\* C34: /verify is read-only on the facilitator's state: no step of a /verify
\* task, whether it ends valid or invalid, changes usedNonces or the supported
\* list; usedNonces holds only what /settle recorded, so verifying a payload
\* does not stop it from being verified or settled later.
C34_VerifyReadOnly ==
  [][/\ \A s \in Slots :
          (/\ slots'[s] /= slots[s]
           /\ \/ slots[s].kind = "verify" /\ slots[s].pc /= "idle"
              \/ slots'[s].kind = "verify" /\ slots'[s].pc /= "idle") =>
            (usedNonces' = usedNonces /\ supported' = supported)
     /\ usedNonces' = {pair[2] : pair \in recorded'}]_vars

\* /verify found a payload valid after running the local check, and nothing
\* was recorded.
C34_Witness ==
  \E s \in Answered :
    /\ slots[s].kind = "verify" /\ slots[s].verification.isValid
    /\ slots[s].localChecked /\ usedNonces = {} /\ recorded = {}

\* C35: when payload.network differs from requirements.network, verification
\* ends with isValid = false and without any RPC call (no chain id lookup, no
\* authorizationState), whether the supported-list check or the scheme's
\* network comparison catches the mismatch.
C35_WrongNetworkNoRpc ==
  \A s \in Busy :
    (/\ DecodePaymentHeader(slots[s].h).ok
     /\ slots[s].h.payload.network /= slots[s].r.network) =>
      /\ slots[s].pc = "done" /\ ~slots[s].verification.isValid
      /\ slots[s].rpcCalls = 0 /\ slots[s].chainId = None /\ slots[s].authSeen = None
      /\ slots[s].tx = 0

\* The payload's network is on the supported list, and the scheme's own
\* comparison with the requirements' network answered false.
C35_Witness ==
  \E s \in Answered :
    /\ slots[s].h = HNet /\ slots[s].r = R0
    /\ IsSupported(supported, "exact", "84532")
    /\ slots[s].schemeVerify = "false" /\ slots[s].rpcCalls = 0
    /\ slots[s].verification = Invalid("Verification failed")

\* C36: every TransferAuthorization generate_payload produces (validAfter =
\* now, validBefore = now + maxTimeoutSeconds), for every maxTimeoutSeconds
\* including 0, and every payload verify accepts, has validBefore > validAfter.
C36_WindowNotEmpty ==
  /\ (gen.pc = "done" /\ gen.res.ok) =>
       StringToU256(gen.res.v.validBefore).v > StringToU256(gen.res.v.validAfter).v
  /\ \A s \in Busy :
       slots[s].schemeVerify = "true" =>
         StringToU256(slots[s].h.payload.validBefore).v
           > StringToU256(slots[s].h.payload.validAfter).v

\* C37: for a replayed payload the invalidReason of /verify is exactly
\* "Nonce already used", both when the local usedNonces set detects the replay
\* and when the on-chain authorizationState does; it is never the generic
\* "Verification failed".
C37_NonceUsedReason ==
  \A s \in Answered :
    (/\ slots[s].kind = "verify"
     /\ slots[s].nonceSeen = "present" \/ slots[s].authSeen = "used") =>
      slots[s].verification = Invalid("Nonce already used")

\* The reasons /verify gives for failures that have nothing to do with time.
OtherReasons == {"Verification failed", "Nonce already used"}

\* C38: when an authorization's validBefore is in the past (now > validBefore)
\* /verify answers isValid = false with an invalidReason that refers to the
\* validity window, which tells expiry apart from other verification failures.
C38_ExpiryReason ==
  \A s \in Answered :
    (/\ ReachesWindowCheck(slots[s].h, slots[s].r)
     /\ StringToU256(slots[s].h.payload.validAfter).v = 0
     /\ ~slots[s].windowOk) =>
      /\ ~slots[s].verification.isValid
      /\ slots[s].verification.invalidReason \notin OtherReasons

\* C39: every 402 response of the protected endpoint, when X-PAYMENT is absent
\* and when a supplied payment fails verification or settlement, has a
\* PaymentRequiredResponse body (x402Version and accepts), which a client can
\* parse to select a requirement.
C39_Every402ListsRequirements ==
  (srv.pc = "done" /\ srv.resp.status = 402) =>
    /\ srv.resp.body[1] = "accepts"
    /\ ParsePaymentRequired(srv.resp).ok

\* C40: decode_payment_header fails with the InvalidPayload error kind when
\* any one of its three steps fails (base64 decoding, UTF-8 validation, JSON
\* parsing), and returns no payload in that case.
C40_DecodeFailsAsInvalidPayload ==
  \A s \in Busy :
    slots[s].h.wire /= "ok" =>
      /\ ~DecodePaymentHeader(slots[s].h).ok
      /\ DecodePaymentHeader(slots[s].h).kind = "InvalidPayload"
      /\ slots[s].pc = "done" /\ ~slots[s].verification.isValid
      /\ slots[s].verification.invalidReason
           = ErrorPrefix("InvalidPayload") \o DecodePaymentHeader(slots[s].h).v
====
